---- MODULE Spec2Model ----
(***************************************************************************)
(* A model of the Lua scripting engine of leihog/discord-bot:              *)
(* internal/lua/engine.go (event queue, dispatcher, commands, Close),      *)
(* events.go (the four Event variants), functions.go (host functions),     *)
(* the script lifecycle (loadScript / unloadScript / reloadScript), the    *)
(* timer manager and the file watcher, together with Bot.Start.            *)
(*                                                                         *)
(* Threads: "main" (Bot.Start: LoadScripts, Engine.Start, later            *)
(* Engine.Close), "disp" (Engine.dispatcher), one goroutine per message    *)
(* handler (Handlers), one goroutine per expired timer (texec), and the    *)
(* watcher goroutine.                                                      *)
(***************************************************************************)
EXTENDS Integers, Sequences, FiniteSets, TLC

(* ------------------------------ bounds -------------------------------- *)
\* Capacity of the buffered channel eventQueue.  The program allocates 200
\* slots (engine.go:69); the model keeps the same drop-on-full channel with
\* a small buffer so that "full" is reached.
QueueCap == 2
\* Events accepted into the queue from messages, watcher notifications
\* and timer expiries: no further stimulus arrives once the queue has
\* accepted this many events.
MaxEvents == 2
\* executeTimer goroutines that run at the same time.
MaxExpiring == 1
\* Largest reading of the clock.
MaxTime == 1
\* Calls of Engine.Close.
MaxCloseCalls == 2
\* Largest number in the Lua values handed to json_encode and store_set.
MaxNumber == 1
\* Largest number of keys of a table that is nested in another table.
MaxInnerKeys == 1

(* ---------------------------- input domains --------------------------- *)
\* File names are sequences of characters, so that filepath.Ext and the
\* hidden-file test are computed from the name.
ScriptA == <<"a", ".", "l", "u", "a">>
ScriptB == <<"b", ".", "l", "u", "a">>
HiddenLua == <<".", "h", ".", "l", "u", "a">>
NotesTxt == <<"n", ".", "t", "x", "t">>
NoName == <<>>

\* os.ReadDir returns the entries sorted by file name.
DirEntries == <<ScriptA, ScriptB, NotesTxt>>
\* Names the watcher is notified about.
WatchNames == {ScriptA, ScriptB, HiddenLua, NotesTxt}
FsOps == {"Write", "Create", "Remove"}

LuaThreads == {"main", "disp"}
Handlers == {"h1", "h2"}
BotHookNames == {"on_channel_message", "on_direct_message", "on_shutdown"}
CmdNames == {"ping"}
TimerIDs == 0..MaxTime

\* m.Author.Bot, m.GuildID == "" and the first token of m.Content
\* ("" when the content does not start with "!").
\* Statements of Lua code that matter to the engine: calls of the host
\* functions of functions.go, and error().
RegisterHook(name, fn) ==
    [op |-> "register_hook", name |-> name, fn |-> fn, n |-> 0]
RegisterCommand(name, fn, cooldown) ==
    [op |-> "register_command", name |-> name, fn |-> fn, n |-> cooldown]
CallLater(fn) == [op |-> "call_later", name |-> "", fn |-> fn, n |-> 0]
RegisterTimer(fn) == [op |-> "register_timer", name |-> "", fn |-> fn, n |-> 0]
UnregisterTimerCall(id) ==
    [op |-> "unregister_timer", name |-> "", fn |-> "", n |-> id]
RaiseError == [op |-> "error", name |-> "", fn |-> "", n |-> 0]

\* The Lua functions the scripts define: "ok" returns at once, "bad"
\* raises an error, "stop" calls unregister_timer and returns.
Body(fn) ==
    IF fn = "bad" THEN <<RaiseError>>
    ELSE IF fn = "stop" THEN <<UnregisterTimerCall(0)>>
    ELSE <<>>

\* Top-level code a script file may hold when it is read.
HookScript ==
    << RegisterHook("on_channel_message", "bad"),
       RegisterHook("on_channel_message", "ok"),
       RegisterHook("on_shutdown", "ok"),
       RegisterHook("on_unload", "ok") >>
CommandScript ==
    << RegisterCommand("ping", "stop", 1),
       RegisterHook("on_direct_message", "ok"),
       RegisterHook("on_typo", "ok") >>
\* A second script that asks for the command name of CommandScript.
RivalScript == << RegisterCommand("ping", "ok", 0) >>
OneShotScript == << CallLater("ok") >>
RepeatingScript == << RegisterTimer("bad") >>
\* A script that registers a repeating timer and then a one-shot timer.
TimersScript == RepeatingScript \o OneShotScript
FailingScript == << RegisterHook("on_shutdown", "ok"), RaiseError >>
\* A text that L.LoadString rejects.
BrokenScript == << [op |-> "syntax error", name |-> "", fn |-> "", n |-> 0] >>

ChannelMessage == [bot |-> FALSE, guild |-> TRUE, cmd |-> ""]

Messages ==
    { ChannelMessage,
      [bot |-> FALSE, guild |-> FALSE, cmd |-> ""],
      [bot |-> FALSE, guild |-> TRUE,  cmd |-> "ping"],
      [bot |-> TRUE,  guild |-> TRUE,  cmd |-> ""] }

\* The surroundings of one run.  dir: the entries os.ReadDir returns at
\* startup.  disk: for each script file the texts it holds at some time of
\* the run (the text read at startup and the texts later writes leave in
\* it; a file with no text cannot be read).  users: the messages the users
\* of the bot send.
ScriptFiles == {ScriptA, ScriptB, HiddenLua}
World(textsA, textsB, messages) ==
    [dir |-> DirEntries,
     disk |-> [n \in ScriptFiles |-> IF n = ScriptA THEN textsA
                                     ELSE IF n = ScriptB THEN textsB ELSE {}],
     users |-> messages]
\* A directory that holds a hidden script file and an unreadable a.lua at
\* startup; b.lua is created in it while the bot runs.
NewFileWorld ==
    [dir |-> <<HiddenLua, ScriptA, NotesTxt>>,
     disk |-> [n \in ScriptFiles |-> IF n = ScriptA THEN {} ELSE {RivalScript}],
     users |-> {}]
Worlds ==
    { World({HookScript, FailingScript}, {BrokenScript}, Messages),
      World({CommandScript}, {RivalScript}, Messages),
      World({}, {TimersScript}, {}),
      World({OneShotScript}, {OneShotScript}, {}),
      NewFileWorld }

(* ------------------------------- state -------------------------------- *)
VARIABLES
    now,            \* the clock read by time.Now()
    isShuttingDown, \* Engine.isShuttingDown
    eventQueue,     \* buffered content of Engine.eventQueue
    queueClosed,    \* close(e.eventQueue) has happened
    panicked,       \* a Go panic that no one recovers ends the process
    stateClosed,    \* e.state.Close() has happened
    hooks,          \* Engine.hooks: hook name -> sequence of HookInfo
    scripts,        \* Engine.scripts: name -> LuaScript object (0: absent)
    objs,           \* the LuaScript objects allocated so far
    currentScript,  \* Engine.currentScript (0: nil)
    commands,       \* Engine.commands: name -> Command object (0: absent)
    cmds,           \* the Command objects allocated so far
    timers,         \* Timer.timers: id -> TimerEntry (0: absent)
    entries,        \* the TimerEntry objects allocated so far
    texec,          \* running executeTimer goroutines
    pc,             \* position of each Lua thread
    stk,            \* return positions of each Lua thread
    arg,            \* locals of load/unload: name, script, targetTimers;
                    \* prev: the script reloadScript has just unloaded
    luaS,           \* the Lua code a thread is executing
    world,          \* the surroundings of this run: disk and users
    cur,            \* dispatcher: the event being dispatched
    pending,        \* dispatcher: hooks of the event still to be called
    todo,           \* LoadScripts: directory entries still to visit
    hpc, hmsg, hcmd,\* message handler goroutines
    accepted,       \* events accepted into the queue so far
    dispatchedSeq,  \* acceptance number of the event taken last
    closeCalls,     \* calls of Close so far
    value,          \* a script's Lua value, the argument of json_encode
                    \* and store_set
    encoded,        \* json_encode(value)
    decoded,        \* json_decode(encoded)
    reencoded,      \* json_encode(decoded)
    kv,             \* rows of the table kv_store: key -> stored text
    got             \* the last store_get: key, row read, value returned

botVars == <<now, isShuttingDown, eventQueue, queueClosed, panicked, stateClosed,
             hooks, scripts, objs, currentScript, commands, cmds, timers, entries,
             texec, pc, stk, arg, luaS, cur, pending, todo, hpc, hmsg, hcmd,
             accepted, dispatchedSeq, closeCalls, world>>
codecVars == <<value, encoded, decoded, reencoded, kv, got>>
vars == <<botVars, codecVars>>

engineVars == <<isShuttingDown, eventQueue, queueClosed, panicked, stateClosed,
                accepted, world>>
registryVars == <<hooks, scripts, objs, currentScript, commands, cmds>>
timerVars == <<timers, entries, texec>>
threadVars == <<pc, stk, arg, luaS, cur, pending, todo>>
handlerVars == <<hpc, hmsg, hcmd>>

(* ------------------------------ helpers ------------------------------- *)
AllNames == {DirEntries[i] : i \in 1..Len(DirEntries)} \cup WatchNames

NoHook == [Function |-> "", Script |-> 0]
NoPanic == [why |-> "none", by |-> "none"]
NoLua == [kind |-> "none", script |-> 0, code |-> <<>>, held |-> {}]
NoArg == [name |-> NoName, script |-> 0, targets |-> {}, prev |-> 0]
NoMsg == [bot |-> FALSE, guild |-> TRUE, cmd |-> ""]
NoEvent == [kind |-> "none", EventType |-> "", TimerID |-> -1,
            Callback |-> NoHook, ScriptName |-> NoName, seq |-> 0]
ZeroTime == -1

\* Index of the last "." of a name, 0 when it has none.
RECURSIVE LastDot(_, _)
LastDot(name, i) ==
    IF i = 0 THEN 0
    ELSE IF name[i] = "." THEN i ELSE LastDot(name, i - 1)

\* filepath.Ext: the suffix beginning at the final dot, empty without a dot.
Ext(name) ==
    LET d == LastDot(name, Len(name))
    IN  IF d = 0 THEN <<>> ELSE SubSeq(name, d, Len(name))

DotLua == <<".", "l", "u", "a">>

\* strings.HasPrefix(base, ".")
IsHidden(name) == Len(name) > 0 /\ name[1] = "."

\* A filter on the extension alone, as the loop of LoadScripts applies it.
ExtensionOnly(name) == Ext(name) = DotLua

\* Watcher.shouldProcessFile
shouldProcessFile(name) == ~IsHidden(name) /\ Ext(name) = DotLua

BotEvent(eventType) ==
    [NoEvent EXCEPT !.kind = "bot", !.EventType = eventType]
TimerEvent(id, hook) ==
    [NoEvent EXCEPT !.kind = "timer", !.EventType = "timer", !.TimerID = id, !.Callback = hook]
CommandEvent(name, hook) ==
    [NoEvent EXCEPT !.kind = "command", !.EventType = name, !.Callback = hook]
ScriptEvent(action, name) ==
    [NoEvent EXCEPT !.kind = "script", !.EventType = action,
                    !.ScriptName = name]

Alive == panicked = NoPanic

\* The registry lock a host function takes: register_hook locks
\* e.hookMutex, register_command (and get_commands) e.cmdMutex, and the
\* timer functions lock Timer.mu inside registerTimer / UnregisterTimer.
NoLock == "none"
LockOf(op) ==
    IF op = "register_hook" THEN "hookMutex"
    ELSE IF op \in {"register_command", "get_commands"} THEN "cmdMutex"
    ELSE IF op \in {"call_later", "register_timer", "unregister_timer"}
         THEN "timer.mu"
    ELSE NoLock

\* No goroutine holds the lock.  Only a Lua thread can be inside a locked
\* region between two steps: every other locked region is one step.
Free(lock) == \A t \in LuaThreads : lock \notin luaS[t].held

(* ------------------- JSON and the key-value store --------------------- *)
\* Lua values (gopher-lua's LValue): a tag and a payload.  The payload of a
\* table maps its keys, themselves Lua values, to its values.
LNil == [t |-> "LNil", v |-> 0]
LString(s) == [t |-> "LString", v |-> s]
LNumber(n) == [t |-> "LNumber", v |-> n]
LBool(b) == [t |-> "LBool", v |-> b]
LTable(f) == [t |-> "LTable", v |-> f]

\* Go values of type any, as luaTableToMap builds and json.Unmarshal
\* returns them.
GoNil == [t |-> "nil", v |-> 0]
GoString(s) == [t |-> "string", v |-> s]
GoFloat64(n) == [t |-> "float64", v |-> n]
GoBool(b) == [t |-> "bool", v |-> b]
GoMap(f) == [t |-> "map[string]any", v |-> f]

\* The Lua values of a run.  A number key and the string key with the
\* same text are both there, and so is a string that reads as a number.
LuaKeys == {LNumber(1), LString("1"), LString("a")}
Scalars ==
    {LString("x"), LString("1"), LBool(TRUE)} \cup {LNumber(n) : n \in 1..MaxNumber}
TablesOver(values, maxKeys) ==
    UNION {[D -> values] : D \in {S \in SUBSET LuaKeys : Cardinality(S) <= maxKeys}}
InnerTables == {LTable(f) : f \in TablesOver(Scalars, MaxInnerKeys)}
InputTables ==
    {LTable(f) : f \in TablesOver(Scalars \cup InnerTables, Cardinality(LuaKeys))}
StoreKeys == {"k1", "k2"}

\* LValue.String(): the text of a string, the decimal text of a number,
\* "true" / "false".
LuaToString(x) ==
    IF x.t = "LString" THEN x.v
    ELSE IF x.t = "LNumber" THEN ToString(x.v)
    ELSE IF x.t = "LBool" THEN (IF x.v THEN "true" ELSE "false")
    ELSE "nil"

\* luaTableToMap: result[key.String()] = the converted value, for every
\* pair LTable.ForEach visits.  ForEach visits the array part (the number
\* key 1) before the string keys, so of two keys with the same text the
\* string key is assigned last.
RECURSIVE luaTableToMap(_)
luaTableToMap(tbl) ==
    LET keys == DOMAIN tbl.v
        last(k) == IF LString(k) \in keys THEN LString(k)
                   ELSE CHOOSE key \in keys : LuaToString(key) = k
        conv(x) == IF x.t = "LTable" THEN luaTableToMap(x)
                   ELSE IF x.t = "LNumber" THEN GoFloat64(x.v)
                   ELSE IF x.t = "LString" THEN GoString(x.v)
                   ELSE IF x.t = "LBool" THEN GoBool(x.v)
                   ELSE GoNil
    IN  GoMap([k \in {LuaToString(key) : key \in keys} |-> conv(tbl.v[last(k)])])

\* A goValueToLua without the case for map[string]any: a nested object
\* falls into the default case.
RECURSIVE goValueToLuaTopOnly(_)
goValueToLuaTopOnly(g) ==
    IF g.t = "map[string]any"
    THEN LTable([key \in {LString(k) : k \in DOMAIN g.v} |->
                   IF g.v[key.v].t = "map[string]any"
                   THEN LString("unsupported")
                   ELSE goValueToLuaTopOnly(g.v[key.v])])
    ELSE IF g.t = "string" THEN LString(g.v)
    ELSE IF g.t = "float64" THEN LNumber(g.v)
    ELSE IF g.t = "bool" THEN LBool(g.v)
    ELSE LNil

\* goValueToLua: a map becomes a table with string keys (RawSetString).
\* The case []any is not modelled: no text written by json.Marshal of a
\* map[string]any holds an array.
RECURSIVE goValueToLua(_)
goValueToLua(g) ==
    IF g.t = "map[string]any"
    THEN LTable([key \in {LString(k) : k \in DOMAIN g.v} |->
                   goValueToLua(g.v[key.v])])
    ELSE IF g.t = "string" THEN LString(g.v)
    ELSE IF g.t = "float64" THEN LNumber(g.v)
    ELSE IF g.t = "bool" THEN LBool(g.v)
    ELSE LNil

\* JSON text is a sequence of pieces: the punctuation marks, the content
\* of a string between two quotes, a number's digits, true, false, null.
Quote == "\""
\* json.Marshal writes the keys of a map in sorted order.
KeyOrder == <<"1", "a">>
SortedKeys(S) == SelectSeq(KeyOrder, LAMBDA k : k \in S)

RECURSIVE Marshal(_), MarshalMembers(_, _)
Marshal(g) ==
    IF g.t = "map[string]any"
    THEN <<"{">> \o MarshalMembers(g.v, SortedKeys(DOMAIN g.v)) \o <<"}">>
    ELSE IF g.t = "string" THEN <<Quote, g.v, Quote>>
    ELSE IF g.t = "float64" THEN <<ToString(g.v)>>
    ELSE IF g.t = "bool" THEN (IF g.v THEN <<"true">> ELSE <<"false">>)
    ELSE <<"null">>
MarshalMembers(m, ks) ==
    IF ks = <<>> THEN <<>>
    ELSE <<Quote, Head(ks), Quote, ":">> \o Marshal(m[Head(ks)])
         \o (IF Tail(ks) = <<>> THEN <<>> ELSE <<",">>)
         \o MarshalMembers(m, Tail(ks))

\* The number a piece of text denotes, if it denotes one.
IsNumberText(s) == \E n \in 0..(MaxNumber + 1) : ToString(n) = s
ToNumber(s) == CHOOSE n \in 0..(MaxNumber + 1) : ToString(n) = s

\* json.Unmarshal into a variable of type any: a parser for the text
\* above.  A key that occurs twice keeps its last value.
SyntaxError == [ok |-> FALSE, val |-> GoNil, rest |-> <<>>]
Parsed(g, rest) == [ok |-> TRUE, val |-> g, rest |-> rest]
RECURSIVE ParseValue(_), ParseMembers(_, _)
ParseValue(s) ==
    IF s = <<>> THEN SyntaxError
    ELSE IF Head(s) = "{"
         THEN IF Len(s) >= 2 /\ s[2] = "}"
              THEN Parsed(GoMap(<<>>), SubSeq(s, 3, Len(s)))
              ELSE ParseMembers(Tail(s), <<>>)
    ELSE IF Head(s) = Quote
         THEN IF Len(s) >= 3 /\ s[3] = Quote
              THEN Parsed(GoString(s[2]), SubSeq(s, 4, Len(s)))
              ELSE SyntaxError
    ELSE IF Head(s) = "true" THEN Parsed(GoBool(TRUE), Tail(s))
    ELSE IF Head(s) = "false" THEN Parsed(GoBool(FALSE), Tail(s))
    ELSE IF Head(s) = "null" THEN Parsed(GoNil, Tail(s))
    ELSE IF IsNumberText(Head(s)) THEN Parsed(GoFloat64(ToNumber(Head(s))), Tail(s))
    ELSE SyntaxError
ParseMembers(s, m) ==
    IF Len(s) < 5 \/ s[1] # Quote \/ s[3] # Quote \/ s[4] # ":"
    THEN SyntaxError
    ELSE LET r == ParseValue(SubSeq(s, 5, Len(s)))
             m2 == [k \in DOMAIN m \cup {s[2]} |->
                      IF k = s[2] THEN r.val ELSE m[k]]
         IN  IF ~r.ok \/ r.rest = <<>> THEN SyntaxError
             ELSE IF Head(r.rest) = "," THEN ParseMembers(Tail(r.rest), m2)
             ELSE IF Head(r.rest) = "}" THEN Parsed(GoMap(m2), Tail(r.rest))
             ELSE SyntaxError
Unmarshal(text) ==
    LET r == ParseValue(text)
    IN  IF r.ok /\ r.rest = <<>> THEN r ELSE SyntaxError

\* Engine.jsonEncode(table): json.Marshal(luaTableToMap(table)).
jsonEncode(table) == Marshal(luaTableToMap(table))

\* Engine.jsonDecode(jsonStr): json.Unmarshal into a map[string]any, then
\* goValueToLua; nil when the text is not a JSON object.
jsonDecode(jsonStr) ==
    LET r == Unmarshal(jsonStr)
    IN  IF r.ok /\ r.val.t = "map[string]any" THEN goValueToLua(r.val) ELSE LNil

\* Engine.StoreSet: the text written to the row, the JSON text of a table
\* and value.String() of any other value.
StoreSetText(val) ==
    IF val.t = "LTable" THEN Marshal(luaTableToMap(val)) ELSE <<LuaToString(val)>>

\* Engine.StoreGet: nil without an error when there is no row
\* (sql.ErrNoRows); else the text is decoded as JSON when it is JSON and
\* returned as a string when it is not.
NoRow == <<>>
StoreGetValue(row) ==
    IF row = NoRow THEN LNil
    ELSE LET r == Unmarshal(row)
         IN  IF r.ok THEN goValueToLua(r.val) ELSE LString(row[1])

NoText == <<>>
NoGet == [key |-> "", row |-> NoRow, val |-> LNil]

\* json_encode(value), json_decode of its result, json_encode of that.
LuaJsonEncode ==
    /\ value.t = "LTable"
    /\ encoded = NoText
    /\ encoded' = jsonEncode(value)
    /\ UNCHANGED <<botVars, value, decoded, reencoded, kv, got>>
LuaJsonDecode ==
    /\ encoded # NoText
    /\ decoded = LNil
    /\ decoded' = jsonDecode(encoded)
    /\ UNCHANGED <<botVars, value, encoded, reencoded, kv, got>>
LuaJsonEncodeAgain ==
    /\ decoded.t = "LTable"
    /\ reencoded = NoText
    /\ reencoded' = jsonEncode(decoded)
    /\ UNCHANGED <<botVars, value, encoded, decoded, kv, got>>

\* store_set(ns, key, value), store_get(ns, key), store_delete(ns, key)
LuaStoreSet(key) ==
    /\ kv[key] = NoRow
    /\ kv' = [kv EXCEPT ![key] = StoreSetText(value)]
    /\ UNCHANGED <<botVars, value, encoded, decoded, reencoded, got>>
LuaStoreGet(key) ==
    /\ got = NoGet
    /\ got' = [key |-> key, row |-> kv[key], val |-> StoreGetValue(kv[key])]
    /\ UNCHANGED <<botVars, value, encoded, decoded, reencoded, kv>>
LuaStoreDelete(key) ==
    /\ kv[key] # NoRow
    /\ got # NoGet
    /\ kv' = [kv EXCEPT ![key] = NoRow]
    /\ UNCHANGED <<botVars, value, encoded, decoded, reencoded, got>>

\* No script uses JSON or the store.
CodecIdle ==
    /\ value = LNil
    /\ encoded = NoText
    /\ decoded = LNil
    /\ reencoded = NoText
    /\ kv = [k \in StoreKeys |-> NoRow]
    /\ got = NoGet

(* ---------------------------- construction ---------------------------- *)
\* The state after lua.New, Engine.Initialize and bot.New: empty
\* registries, an open empty queue, no dispatcher yet; Bot.Start is about
\* to call LoadScripts.
EngineInit ==
    /\ now = 0
    /\ isShuttingDown = FALSE
    /\ eventQueue = <<>>
    /\ queueClosed = FALSE
    /\ panicked = NoPanic
    /\ stateClosed = FALSE
    /\ hooks = [h \in BotHookNames |-> <<>>]
    /\ scripts = [n \in AllNames |-> 0]
    /\ objs = <<>>
    /\ currentScript = 0
    /\ commands = [c \in CmdNames |-> 0]
    /\ cmds = <<>>
    /\ timers = [i \in TimerIDs |-> 0]
    /\ entries = <<>>
    /\ texec = {}
    /\ pc = [t \in LuaThreads |-> IF t = "main" THEN "LoadScripts" ELSE "notstarted"]
    /\ stk = [t \in LuaThreads |-> <<>>]
    /\ arg = [t \in LuaThreads |-> NoArg]
    /\ luaS = [t \in LuaThreads |-> NoLua]
    /\ world \in Worlds
    /\ cur = NoEvent
    /\ pending = <<>>
    /\ todo = world.dir
    /\ hpc = [h \in Handlers |-> "idle"]
    /\ hmsg = [h \in Handlers |-> NoMsg]
    /\ hcmd = [h \in Handlers |-> 0]
    /\ accepted = 0
    /\ dispatchedSeq = 0
    /\ closeCalls = 0

Init == EngineInit /\ CodecIdle

\* A script is about to hand one of the values to json_encode or
\* store_set; the store is empty.
CodecInit ==
    /\ EngineInit
    /\ world = NewFileWorld
    /\ value \in InputTables \cup Scalars
    /\ encoded = NoText
    /\ decoded = LNil
    /\ reencoded = NoText
    /\ kv = [k \in StoreKeys |-> NoRow]
    /\ got = NoGet

(* ------------------------- the event queue ---------------------------- *)
\* A non-blocking send on the buffered channel, as in
\*   select { case e.eventQueue <- event: ... default: (dropped) }
\* A send on a closed channel panics in Go, also inside a select with a
\* default case.  `by` is the goroutine that sends.
ChanSend(event, by) ==
    IF queueClosed
    THEN /\ panicked' = [why |-> "send on closed channel", by |-> by]
         /\ UNCHANGED <<eventQueue, accepted>>
    ELSE IF Len(eventQueue) < QueueCap
         THEN /\ eventQueue' = Append(eventQueue, [event EXCEPT !.seq = accepted + 1])
              /\ accepted' = accepted + 1
              /\ UNCHANGED panicked
         ELSE UNCHANGED <<eventQueue, accepted, panicked>>

\* Engine.enqueueEvent(event, source)
enqueueEvent(event, by) == ChanSend(event, by)

(* ------------------------------ the clock ----------------------------- *)
\* time.Now(): the clock never runs backwards; `now` is its last reading
\* and the call returns that reading or a later one.
TimeNow(t) ==
    /\ t \in now..MaxTime
    /\ now' = t

\* time.Since(last) at the reading t; the zero time lies further back than
\* any cooldown.
Since(last, t) == IF last = ZeroTime THEN MaxTime + 2 ELSE t - last

(* ------------------------- message handlers --------------------------- *)
\* Engine.ProcessMessage up to the branch on the command prefix; discordgo
\* runs every handler call in a goroutine of its own.
ProcessMessage(h, m) ==
    /\ hpc[h] = "idle"
    /\ m \in world.users
    /\ accepted < MaxEvents
    /\ IF isShuttingDown \/ m.bot
       THEN UNCHANGED <<hpc, hmsg>>
       ELSE /\ hmsg' = [hmsg EXCEPT ![h] = m]
            /\ hpc' = [hpc EXCEPT ![h] =
                         IF m.cmd # "" THEN "tryHandleCommand" ELSE "enqueueMessageHooks"]
    /\ UNCHANGED <<now, engineVars, registryVars, timerVars, threadVars, hcmd,
                   dispatchedSeq, closeCalls>>

\* A lookup that reports "not a command" for every name.
CommandLookupNeverFinds(h) ==
    /\ hpc[h] = "tryHandleCommand"
    /\ hpc' = [hpc EXCEPT ![h] = "enqueueMessageHooks"]
    /\ UNCHANGED <<now, engineVars, registryVars, timerVars, threadVars, hmsg,
                   hcmd, dispatchedSeq, closeCalls>>

\* tryHandleCommand: the lookup of the command under cmdMutex.
CommandLookup(h) ==
    /\ hpc[h] = "tryHandleCommand"
    /\ Free("cmdMutex")
    /\ LET c == IF hmsg[h].cmd \in DOMAIN commands THEN commands[hmsg[h].cmd] ELSE 0
       IN  IF c = 0
           THEN /\ hpc' = [hpc EXCEPT ![h] = "enqueueMessageHooks"]
                /\ UNCHANGED hcmd
           ELSE /\ hpc' = [hpc EXCEPT ![h] = "cooldown"]
                /\ hcmd' = [hcmd EXCEPT ![h] = c]
    /\ UNCHANGED <<now, engineVars, registryVars, timerVars, threadVars, hmsg, dispatchedSeq, closeCalls>>

\* tryHandleCommand: lastUsed is read under the read lock and compared.
CooldownCheck(h) ==
    /\ hpc[h] = "cooldown"
    /\ \E t \in 0..MaxTime :
         /\ TimeNow(t)
         /\ IF Since(cmds[hcmd[h]].LastUsed, t) < cmds[hcmd[h]].Cooldown
            THEN /\ hpc' = [hpc EXCEPT ![h] = "idle"]
                 /\ hcmd' = [hcmd EXCEPT ![h] = 0]
                 /\ hmsg' = [hmsg EXCEPT ![h] = NoMsg]
            ELSE /\ hpc' = [hpc EXCEPT ![h] = "setLastUsed"]
                 /\ UNCHANGED <<hcmd, hmsg>>
    /\ UNCHANGED <<engineVars, registryVars, timerVars, threadVars,
                   dispatchedSeq, closeCalls>>

\* tryHandleCommand: cmd.LastUsed = time.Now() under the write lock.
SetLastUsed(h) ==
    /\ hpc[h] = "setLastUsed"
    /\ \E t \in 0..MaxTime :
         /\ TimeNow(t)
         /\ cmds' = [cmds EXCEPT ![hcmd[h]].LastUsed = t]
    /\ hpc' = [hpc EXCEPT ![h] = "enqueueCommand"]
    /\ UNCHANGED <<engineVars, hooks, scripts, objs, currentScript, commands,
                   timerVars, threadVars, hmsg, hcmd, dispatchedSeq,
                   closeCalls>>

\* tryHandleCommand: the CommandEvent is built from cmd and submitted.
EnqueueCommand(h) ==
    /\ hpc[h] = "enqueueCommand"
    /\ enqueueEvent(CommandEvent(cmds[hcmd[h]].Name, cmds[hcmd[h]].Callback), h)
    /\ hpc' = [hpc EXCEPT ![h] = "idle"]
    /\ hcmd' = [hcmd EXCEPT ![h] = 0]
    /\ hmsg' = [hmsg EXCEPT ![h] = NoMsg]
    /\ UNCHANGED <<now, world, isShuttingDown, queueClosed, stateClosed, registryVars,
                   timerVars, threadVars, dispatchedSeq, closeCalls>>

\* Engine.enqueueMessageHooks
enqueueMessageHooks(h) ==
    /\ hpc[h] = "enqueueMessageHooks"
    /\ enqueueEvent(BotEvent(IF hmsg[h].guild THEN "on_channel_message"
                                              ELSE "on_direct_message"), h)
    /\ hpc' = [hpc EXCEPT ![h] = "idle"]
    /\ hmsg' = [hmsg EXCEPT ![h] = NoMsg]
    /\ UNCHANGED <<now, world, isShuttingDown, queueClosed, stateClosed, registryVars,
                   timerVars, threadVars, hcmd, dispatchedSeq, closeCalls>>

(* ----------------------------- the watcher ---------------------------- *)
\* One iteration of the watcher goroutine's loop for a notification about
\* `name`.  The goroutine is started by Bot.Start after Engine.Start and
\* leaves its loop only when it observes ctx.Done.
WatcherEvent(name, op) ==
    /\ pc["disp"] # "notstarted"
    /\ accepted < MaxEvents
    /\ IF shouldProcessFile(name) /\ op \in {"Write", "Create"}
       THEN enqueueEvent(ScriptEvent(IF op = "Write" THEN "reload" ELSE "load",
                                     name), "watcher")
       ELSE UNCHANGED <<eventQueue, accepted, panicked>>
    /\ UNCHANGED <<now, world, isShuttingDown, queueClosed, stateClosed, registryVars,
                   timerVars, threadVars, handlerVars, dispatchedSeq, closeCalls>>

(* --------------------------- the timer manager ------------------------ *)
\* generateTimerID: "timer_" followed by the formatted reading of the clock.
generateTimerID(t) == t

\* Timer.registerTimer: the entry is stored under the generated id and its
\* Go timer is armed.  `armed` is the state of the timer entry.Timer points
\* to; `older` counts armed Go timers the entry no longer points to.
registerTimer(fn, script, repeating) ==
    \E t \in 0..MaxTime :
      /\ TimeNow(t)
      /\ entries' = Append(entries,
                           [ID |-> generateTimerID(t), Callback |-> fn,
                            Script |-> script, Repeating |-> repeating,
                            Active |-> TRUE, armed |-> TRUE, older |-> 0])
      /\ timers' = [timers EXCEPT ![generateTimerID(t)] = Len(entries) + 1]

\* entry.Timer.Stop() and entry.Active = false, when the entry is active.
StopEntry(e) ==
    IF e.Active THEN [e EXCEPT !.armed = FALSE, !.Active = FALSE] ELSE e

\* Timer.UnregisterTimer(timerID); its result is timers[timerID] # 0.
UnregisterTimer(timerID) ==
    IF timers[timerID] = 0
    THEN UNCHANGED <<timers, entries>>
    ELSE /\ entries' = [entries EXCEPT ![timers[timerID]] = StopEntry(@)]
         /\ timers' = [timers EXCEPT ![timerID] = 0]

\* The boolean Timer.UnregisterTimer(timerID) returns.
UnregisterTimerResult(timerID) == timers[timerID] # 0

\* Timer.StopAll
StopAll ==
    /\ entries' = [i \in DOMAIN entries |->
                     IF timers[entries[i].ID] = i THEN StopEntry(entries[i])
                                                  ELSE entries[i]]
    /\ timers' = [id \in TimerIDs |-> 0]

\* The goroutines that run executeTimer are told apart by a number: the
\* lowest one no running goroutine has.
FreeSlot ==
    CHOOSE n \in 1..MaxExpiring :
      /\ \A g \in texec : g.n # n
      /\ \A k \in 1..(n - 1) : \E g \in texec : g.n = k

\* An armed Go timer of entry i expires: time.AfterFunc starts a goroutine
\* that runs executeTimer(timerID).
TimerFire(i) ==
    /\ accepted < MaxEvents
    /\ Cardinality(texec) < MaxExpiring
    /\ \/ /\ entries[i].armed
          /\ entries' = [entries EXCEPT ![i].armed = FALSE]
       \/ /\ entries[i].older > 0
          /\ entries' = [entries EXCEPT ![i].older = @ - 1]
    /\ texec' = texec \cup {[id |-> entries[i].ID, pc |-> "start", entry |-> 0,
                               n |-> FreeSlot]}
    /\ UNCHANGED <<now, engineVars, registryVars, timers, threadVars, handlerVars,
                   dispatchedSeq, closeCalls>>

\* executeTimer: the lookup under the read lock and entry.Active = false.
ExecuteTimerLookup(g) ==
    /\ g.pc = "start"
    /\ Free("timer.mu")
    /\ IF timers[g.id] = 0
       THEN /\ texec' = texec \ {g}
            /\ UNCHANGED entries
       ELSE /\ texec' = (texec \ {g}) \cup
                        {[g EXCEPT !.pc = "send", !.entry = timers[g.id]]}
            /\ entries' = [entries EXCEPT ![timers[g.id]].Active = FALSE]
    /\ UNCHANGED <<now, engineVars, registryVars, timers, threadVars, handlerVars, dispatchedSeq, closeCalls>>

\* executeTimer: the TimerEvent is sent to the queue with a select of its
\* own (not through enqueueEvent).
ExecuteTimerSend(g) ==
    /\ g.pc = "send"
    /\ ChanSend(TimerEvent(g.id, [Function |-> entries[g.entry].Callback,
                                  Script |-> entries[g.entry].Script]),
                "timer")
    /\ texec' = (texec \ {g}) \cup {[g EXCEPT !.pc = "finish"]}
    /\ UNCHANGED <<now, world, isShuttingDown, queueClosed, stateClosed, registryVars,
                   timers, entries, threadVars, handlerVars, dispatchedSeq,
                   closeCalls>>

\* executeTimer: a repeating timer is re-armed on its entry, a one-shot
\* timer's id is deleted from the map.
ExecuteTimerFinish(g) ==
    /\ g.pc = "finish"
    /\ Free("timer.mu")
    /\ IF entries[g.entry].Repeating
       THEN /\ entries' = [entries EXCEPT ![g.entry] =
                             [@ EXCEPT !.older = IF entries[g.entry].armed
                                                 THEN @ + 1 ELSE @,
                                       !.armed = TRUE, !.Active = TRUE]]
            /\ UNCHANGED timers
       ELSE /\ timers' = [timers EXCEPT ![g.id] = 0]
            /\ UNCHANGED entries
    /\ texec' = texec \ {g}
    /\ UNCHANGED <<now, engineVars, registryVars, threadVars, handlerVars, dispatchedSeq, closeCalls>>

(* ------------------------- executing Lua code ------------------------- *)
Range(f) == {f[i] : i \in DOMAIN f}

Return(t) ==
    /\ pc' = [pc EXCEPT ![t] = Head(stk[t])]
    /\ stk' = [stk EXCEPT ![t] = Tail(@)]

\* A callLuaFunction that takes e.hookMutex before it calls into the
\* interpreter and keeps it during the call.
callLuaFunctionUnderHookMutex(t, fn, ret) ==
    /\ currentScript' = fn.Script
    /\ luaS' = [luaS EXCEPT ![t] = [kind |-> "call", script |-> fn.Script,
                                    code |-> Body(fn.Function),
                                    held |-> {"hookMutex"}]]
    /\ pc' = [pc EXCEPT ![t] = "lua"]
    /\ stk' = [stk EXCEPT ![t] = <<ret>> \o @]

\* Engine.callLuaFunction up to the call into the interpreter:
\* e.currentScript = fn.Script, then CallByParam with Protect: true.
callLuaFunction(t, fn, ret) ==
    /\ currentScript' = fn.Script
    /\ luaS' = [luaS EXCEPT ![t] = [kind |-> "call", script |-> fn.Script,
                                    code |-> Body(fn.Function),
                                    held |-> luaS[t].held]]
    /\ pc' = [pc EXCEPT ![t] = "lua"]
    /\ stk' = [stk EXCEPT ![t] = <<ret>> \o @]

\* The running Lua code is about to make the host call `op`.
AtHostCall(t, op) ==
    /\ pc[t] = "lua"
    /\ luaS[t].code # <<>>
    /\ Head(luaS[t].code).op = op

\* The host function holds the lock it takes.
InsideLock(t) == LockOf(Head(luaS[t].code).op) \in luaS[t].held

\* A host function reaches its Lock() call (e.hookMutex.Lock(),
\* e.cmdMutex.Lock(), or t.mu.Lock() in the Timer method it calls) and
\* gets the lock when no goroutine holds it.
HostLock(t) ==
    /\ pc[t] = "lua"
    /\ luaS[t].code # <<>>
    /\ LockOf(Head(luaS[t].code).op) # NoLock
    /\ Free(LockOf(Head(luaS[t].code).op))
    /\ luaS' = [luaS EXCEPT ![t].held = @ \cup {LockOf(Head(luaS[t].code).op)}]
    /\ UNCHANGED <<now, engineVars, registryVars, timerVars, pc, stk, arg, cur,
                   pending, todo, handlerVars, dispatchedSeq, closeCalls>>

\* The host function returns to the Lua code: its deferred Unlock() runs.
NextStatement(t) ==
    luaS' = [luaS EXCEPT ![t].code = Tail(@),
                         ![t].held = @ \ {LockOf(Head(luaS[t].code).op)}]

\* register_hook(hookName, hookFunc), called by the running Lua code.
LuaRegisterHook(t) ==
    /\ AtHostCall(t, "register_hook")
    /\ InsideLock(t)
    /\ currentScript # 0
    /\ NextStatement(t)
    /\ LET hookName == Head(luaS[t].code).name
           hookFunc == Head(luaS[t].code).fn
       IN  IF hookName \in BotHookNames
           THEN /\ hooks' = [hooks EXCEPT ![hookName] =
                               Append(@, [Function |-> hookFunc,
                                          Script |-> currentScript])]
                /\ UNCHANGED objs
           ELSE IF hookName = "on_unload"
                THEN /\ objs' = [objs EXCEPT ![currentScript].OnUnload = hookFunc]
                     /\ UNCHANGED hooks
                ELSE UNCHANGED <<hooks, objs>>
    /\ UNCHANGED <<now, engineVars, scripts, currentScript, commands, cmds,
                   timerVars, pc, stk, arg, cur, pending, todo, handlerVars,
                   dispatchedSeq, closeCalls>>

\* A register_command without the test for an existing command of the
\* same name.
LuaRegisterCommandOverwrite(t) ==
    /\ AtHostCall(t, "register_command")
    /\ InsideLock(t)
    /\ currentScript # 0
    /\ NextStatement(t)
    /\ LET commandName == Head(luaS[t].code).name
       IN  /\ cmds' = Append(cmds,
                             [Name |-> commandName,
                              Callback |-> [Function |-> Head(luaS[t].code).fn,
                                            Script |-> currentScript],
                              Cooldown |-> Head(luaS[t].code).n,
                              LastUsed |-> ZeroTime])
           /\ commands' = [commands EXCEPT ![commandName] = Len(cmds) + 1]
           /\ objs' = [objs EXCEPT ![currentScript].Commands =
                                      Append(@, commandName)]
    /\ UNCHANGED <<now, engineVars, hooks, scripts, currentScript, timerVars,
                   pc, stk, arg, cur, pending, todo, handlerVars, dispatchedSeq,
                   closeCalls>>

\* A register_command that does not enter the name into the command list
\* of the current script.
LuaRegisterCommandUnlisted(t) ==
    /\ AtHostCall(t, "register_command")
    /\ InsideLock(t)
    /\ currentScript # 0
    /\ NextStatement(t)
    /\ LET commandName == Head(luaS[t].code).name
       IN  IF commands[commandName] # 0
           THEN UNCHANGED <<commands, cmds>>
           ELSE /\ cmds' = Append(cmds,
                                  [Name |-> commandName,
                                   Callback |-> [Function |-> Head(luaS[t].code).fn,
                                                 Script |-> currentScript],
                                   Cooldown |-> Head(luaS[t].code).n,
                                   LastUsed |-> ZeroTime])
                /\ commands' = [commands EXCEPT ![commandName] = Len(cmds) + 1]
    /\ UNCHANGED <<now, engineVars, hooks, scripts, objs, currentScript, timerVars,
                   pc, stk, arg, cur, pending, todo, handlerVars, dispatchedSeq,
                   closeCalls>>

\* register_command(name, description, callback, cooldown)
LuaRegisterCommand(t) ==
    /\ AtHostCall(t, "register_command")
    /\ InsideLock(t)
    /\ currentScript # 0
    /\ NextStatement(t)
    /\ LET commandName == Head(luaS[t].code).name
       IN  IF commands[commandName] # 0
           THEN UNCHANGED <<commands, cmds, objs>>
           ELSE /\ cmds' = Append(cmds,
                                  [Name |-> commandName,
                                   Callback |-> [Function |-> Head(luaS[t].code).fn,
                                                 Script |-> currentScript],
                                   Cooldown |-> Head(luaS[t].code).n,
                                   LastUsed |-> ZeroTime])
                /\ commands' = [commands EXCEPT ![commandName] = Len(cmds) + 1]
                /\ objs' = [objs EXCEPT ![currentScript].Commands =
                                           Append(@, commandName)]
    /\ UNCHANGED <<now, engineVars, hooks, scripts, currentScript, timerVars,
                   pc, stk, arg, cur, pending, todo, handlerVars, dispatchedSeq,
                   closeCalls>>

\* get_commands(): the table it returns, one entry per key of e.commands
\* with the command's name, the name of its script and its cooldown.
get_commands ==
    [c \in {n \in CmdNames : commands[n] # 0} |->
       [name |-> cmds[commands[c]].Name,
        script |-> objs[cmds[commands[c]].Callback.Script].Name,
        cooldown |-> cmds[commands[c]].Cooldown]]

\* call_later (one-shot) and register_timer (repeating)
LuaRegisterTimer(t) ==
    /\ \/ AtHostCall(t, "call_later")
       \/ AtHostCall(t, "register_timer")
    /\ InsideLock(t)
    /\ currentScript # 0
    /\ NextStatement(t)
    /\ registerTimer(Head(luaS[t].code).fn, currentScript,
                     Head(luaS[t].code).op = "register_timer")
    /\ UNCHANGED <<engineVars, registryVars, texec, pc, stk, arg, cur,
                   pending, todo, handlerVars, dispatchedSeq, closeCalls>>

\* unregister_timer(id)
LuaUnregisterTimer(t) ==
    /\ AtHostCall(t, "unregister_timer")
    /\ InsideLock(t)
    /\ NextStatement(t)
    /\ UnregisterTimer(Head(luaS[t].code).n)
    /\ UNCHANGED <<now, engineVars, registryVars, texec, pc, stk, arg, cur,
                   pending, todo, handlerVars, dispatchedSeq, closeCalls>>

\* The Lua code has run to its end, or it raises an error that the
\* protected call (Protect: true / PCall) hands back as err.
LuaEnded(t) == pc[t] = "lua" /\ luaS[t].code = <<>>
LuaRaised(t) == AtHostCall(t, "error")

\* A call without Protect: an error raised by the Lua code ends the
\* goroutine that made the call.
callLuaFunctionUnprotected(t) ==
    /\ LuaEnded(t) \/ LuaRaised(t)
    /\ luaS[t].kind = "call"
    /\ currentScript' = 0
    /\ luaS' = [luaS EXCEPT ![t] = NoLua]
    /\ IF LuaRaised(t)
       THEN /\ pc' = [pc EXCEPT ![t] = "exited"]
            /\ UNCHANGED stk
       ELSE Return(t)
    /\ UNCHANGED <<now, engineVars, hooks, scripts, objs, commands, cmds,
                   timerVars, arg, cur, pending, todo, handlerVars,
                   dispatchedSeq, closeCalls>>

\* callLuaFunction after the call: err is logged, the deferred function
\* resets currentScript, and the caller goes on.
callLuaFunctionReturn(t) ==
    /\ LuaEnded(t) \/ LuaRaised(t)
    /\ luaS[t].kind = "call"
    /\ currentScript' = 0
    /\ luaS' = [luaS EXCEPT ![t] = NoLua]
    /\ Return(t)
    /\ UNCHANGED <<now, engineVars, hooks, scripts, objs, commands, cmds,
                   timerVars, arg, cur, pending, todo, handlerVars,
                   dispatchedSeq, closeCalls>>

(* --------------------------- script lifecycle ------------------------- *)
\* os.ReadFile(path): the texts the read may return, none when it fails.
ReadFile(name) == IF name \in DOMAIN world.disk THEN world.disk[name] ELSE {}

\* L.LoadString(code) succeeds.
Compiles(code) == code = <<>> \/ Head(code).op # "syntax error"

\* A loadScript that enters the script into e.scripts before it compiles
\* the file.
loadScriptEntersFirst(t) ==
    /\ pc[t] = "loadScript"
    /\ \/ /\ \/ ReadFile(arg[t].name) = {}
             \/ \E code \in ReadFile(arg[t].name) : ~Compiles(code)
          /\ Return(t)
          /\ arg' = [arg EXCEPT ![t] = NoArg]
          /\ objs' = Append(objs, [Name |-> arg[t].name, OnUnload |-> "",
                                   Commands |-> <<>>])
          /\ scripts' = [scripts EXCEPT ![arg[t].name] = Len(objs) + 1]
          /\ UNCHANGED <<currentScript, luaS>>
       \/ \E code \in ReadFile(arg[t].name) :
            /\ Compiles(code)
            /\ objs' = Append(objs, [Name |-> arg[t].name, OnUnload |-> "",
                                     Commands |-> <<>>])
            /\ currentScript' = Len(objs) + 1
            /\ luaS' = [luaS EXCEPT ![t] = [kind |-> "load",
                                            script |-> Len(objs) + 1,
                                            code |-> code,
                                            held |-> luaS[t].held]]
            /\ pc' = [pc EXCEPT ![t] = "lua"]
            /\ UNCHANGED <<stk, arg, scripts>>
    /\ UNCHANGED <<now, engineVars, hooks, commands, cmds, timerVars,
                   cur, pending, todo, handlerVars, dispatchedSeq,
                   closeCalls>>

\* Engine.loadScript up to L.PCall: the file is read and compiled; on
\* success a LuaScript object is allocated and becomes currentScript.
loadScript(t) ==
    /\ pc[t] = "loadScript"
    /\ \/ /\ \/ ReadFile(arg[t].name) = {}
             \/ \E code \in ReadFile(arg[t].name) : ~Compiles(code)
          /\ Return(t)
          /\ arg' = [arg EXCEPT ![t] = NoArg]
          /\ UNCHANGED <<objs, currentScript, luaS>>
       \/ \E code \in ReadFile(arg[t].name) :
            /\ Compiles(code)
            /\ objs' = Append(objs, [Name |-> arg[t].name, OnUnload |-> "",
                                     Commands |-> <<>>])
            /\ currentScript' = Len(objs) + 1
            /\ luaS' = [luaS EXCEPT ![t] = [kind |-> "load",
                                            script |-> Len(objs) + 1,
                                            code |-> code,
                                            held |-> luaS[t].held]]
            /\ pc' = [pc EXCEPT ![t] = "lua"]
            /\ UNCHANGED <<stk, arg>>
    /\ UNCHANGED <<now, engineVars, hooks, scripts, commands, cmds, timerVars,
                   cur, pending, todo, handlerVars, dispatchedSeq,
                   closeCalls>>

\* Engine.loadScript after L.PCall: a runtime error returns at once; else
\* currentScript is reset and the script is entered into e.scripts.
loadScriptFinish(t) ==
    /\ LuaEnded(t) \/ LuaRaised(t)
    /\ luaS[t].kind = "load"
    /\ IF LuaRaised(t)
       THEN UNCHANGED <<currentScript, scripts>>
       ELSE /\ currentScript' = 0
            /\ scripts' = [scripts EXCEPT ![arg[t].name] = luaS[t].script]
    /\ luaS' = [luaS EXCEPT ![t] = NoLua]
    /\ arg' = [arg EXCEPT ![t] = NoArg]
    /\ Return(t)
    /\ UNCHANGED <<now, engineVars, hooks, objs, commands, cmds, timerVars,
                   cur, pending, todo, handlerVars, dispatchedSeq,
                   closeCalls>>

\* Engine.LoadScripts: one iteration of the loop over the directory.
LoadScripts ==
    /\ pc["main"] = "LoadScripts"
    /\ IF todo = <<>>
       THEN /\ pc' = [pc EXCEPT !["main"] = "Start"]
            /\ UNCHANGED <<todo, arg, stk>>
       ELSE /\ todo' = Tail(todo)
            /\ IF Ext(Head(todo)) # DotLua
               THEN UNCHANGED <<pc, arg, stk>>
               ELSE /\ pc' = [pc EXCEPT !["main"] = "loadScript"]
                    /\ arg' = [arg EXCEPT !["main"] = [NoArg EXCEPT !.name = Head(todo)]]
                    /\ stk' = [stk EXCEPT !["main"] = <<"LoadScripts">>]
    /\ UNCHANGED <<now, engineVars, registryVars, timerVars, luaS, cur, pending,
                   handlerVars, dispatchedSeq, closeCalls>>

\* A removeHooks that leaves every hook list as it is.
KeepHooks(script) == hooks

\* A removeHooks that stops at the first hook of the script it finds in a
\* list and moves the last hook of the list into its place.
removeHooksSwapLast(script) ==
    [h \in BotHookNames |->
       LET own == {i \in DOMAIN hooks[h] : hooks[h][i].Script = script}
           first == CHOOSE i \in own : \A k \in own : i <= k
       IN  IF own = {}
           THEN hooks[h]
           ELSE [i \in 1..(Len(hooks[h]) - 1) |->
                   IF i = first THEN hooks[h][Len(hooks[h])] ELSE hooks[h][i]]]

\* Engine.removeHooks(script)
removeHooks(script) ==
    [h \in BotHookNames |-> SelectSeq(hooks[h], LAMBDA x : x.Script # script)]

\* An unloadScript that removes the script's hooks before it calls the
\* on_unload callback.
unloadScriptRemovesFirst(t) ==
    /\ pc[t] = "unloadScript"
    /\ LET name == arg[t].name
           script == IF name \in DOMAIN scripts THEN scripts[name] ELSE 0
       IN  IF script = 0
           THEN /\ Return(t)
                /\ arg' = [arg EXCEPT ![t] =
                             IF Head(stk[t]) = "loadScript" THEN @ ELSE NoArg]
                /\ UNCHANGED <<currentScript, luaS, hooks>>
           ELSE /\ arg' = [arg EXCEPT ![t].script = script]
                /\ hooks' = removeHooks(script)
                /\ IF objs[script].OnUnload # ""
                   THEN callLuaFunction(t, [Function |-> objs[script].OnUnload,
                                            Script |-> script], "unload_remove")
                   ELSE /\ pc' = [pc EXCEPT ![t] = "unload_remove"]
                        /\ UNCHANGED <<stk, currentScript, luaS>>
    /\ UNCHANGED <<now, engineVars, scripts, objs, commands, cmds,
                   timerVars, cur, pending, todo, handlerVars, dispatchedSeq, closeCalls>>

\* Engine.unloadScript: the lookup and the on_unload callback.
unloadScript(t) ==
    /\ pc[t] = "unloadScript"
    /\ LET name == arg[t].name
           script == IF name \in DOMAIN scripts THEN scripts[name] ELSE 0
       IN  IF script = 0
           THEN /\ Return(t)
                /\ arg' = [arg EXCEPT ![t] =
                             IF Head(stk[t]) = "loadScript" THEN @ ELSE NoArg]
                /\ UNCHANGED <<currentScript, luaS>>
           ELSE /\ arg' = [arg EXCEPT ![t].script = script]
                /\ IF objs[script].OnUnload # ""
                   THEN callLuaFunction(t, [Function |-> objs[script].OnUnload,
                                            Script |-> script], "unload_remove")
                   ELSE /\ pc' = [pc EXCEPT ![t] = "unload_remove"]
                        /\ UNCHANGED <<stk, currentScript, luaS>>
    /\ UNCHANGED <<now, engineVars, hooks, scripts, objs, commands, cmds,
                   timerVars, cur, pending, todo, handlerVars, dispatchedSeq, closeCalls>>

\* An UnregisterScriptTimers that keeps t.mu locked after it collected the
\* ids, while it calls UnregisterTimer for them.
UnloadRemoveKeepsLock(t) ==
    /\ pc[t] = "unload_remove"
    /\ Free("timer.mu")
    /\ hooks' = removeHooks(arg[t].script)
    /\ arg' = [arg EXCEPT ![t].targets =
                 {id \in TimerIDs : /\ timers[id] # 0
                                    /\ objs[entries[timers[id]].Script].Name
                                         = arg[t].name}]
    /\ luaS' = [luaS EXCEPT ![t].held = {"timer.mu"}]
    /\ pc' = [pc EXCEPT ![t] = "unload_timers"]
    /\ UNCHANGED <<now, engineVars, scripts, objs, currentScript, commands, cmds,
                   timerVars, stk, cur, pending, todo, handlerVars, dispatchedSeq, closeCalls>>

\* unloadScript: removeHooks, then the first half of
\* Timer.UnregisterScriptTimers, which collects the ids of the timers whose
\* script has this name while holding the timer lock.
UnloadRemove(t) ==
    /\ pc[t] = "unload_remove"
    /\ Free("timer.mu")
    /\ hooks' = removeHooks(arg[t].script)
    /\ arg' = [arg EXCEPT ![t].targets =
                 {id \in TimerIDs : /\ timers[id] # 0
                                    /\ objs[entries[timers[id]].Script].Name
                                         = arg[t].name}]
    /\ pc' = [pc EXCEPT ![t] = "unload_timers"]
    /\ UNCHANGED <<now, engineVars, scripts, objs, currentScript, commands, cmds,
                   timerVars, stk, luaS, cur, pending, todo, handlerVars, dispatchedSeq, closeCalls>>

\* unloadScript: UnregisterTimer for each collected id, one lock at a time;
\* after the last one the script's commands and the script are deleted.
UnloadTimers(t) ==
    /\ pc[t] = "unload_timers"
    /\ IF arg[t].targets # {}
       THEN /\ Free("timer.mu")
            /\ \E id \in arg[t].targets :
                  /\ UnregisterTimer(id)
                  /\ arg' = [arg EXCEPT ![t].targets = @ \ {id}]
            /\ UNCHANGED <<commands, scripts, pc, stk>>
       ELSE /\ commands' = [c \in CmdNames |->
                              IF c \in Range(objs[arg[t].script].Commands)
                              THEN 0 ELSE commands[c]]
            /\ scripts' = [scripts EXCEPT ![objs[arg[t].script].Name] = 0]
            /\ arg' = [arg EXCEPT ![t] =
                         IF Head(stk[t]) = "loadScript"
                         THEN [NoArg EXCEPT !.name = arg[t].name,
                                            !.prev = arg[t].script]
                         ELSE NoArg]
            /\ Return(t)
            /\ UNCHANGED <<timers, entries>>
    /\ UNCHANGED <<now, engineVars, hooks, objs, currentScript, cmds, texec,
                   luaS, cur, pending, todo, handlerVars, dispatchedSeq,
                   closeCalls>>

\* unloadScript deletes the script's commands from e.commands without
\* e.cmdMutex while a message handler is in tryHandleCommand at its lookup
\* in the same map: the Go runtime may detect the unsynchronised map access
\* and end the process with a fatal error.
UnloadCommandsRace(t) ==
    /\ pc[t] = "unload_timers"
    /\ arg[t].targets = {}
    /\ objs[arg[t].script].Commands # <<>>
    /\ \E c \in CmdNames : commands[c] # 0
    /\ \E h \in Handlers : hpc[h] = "tryHandleCommand"
    /\ panicked' = [why |-> "concurrent map read and map write", by |-> t]
    /\ UNCHANGED <<now, world, isShuttingDown, eventQueue, queueClosed, stateClosed,
                   accepted, registryVars, timerVars, threadVars, handlerVars,
                   dispatchedSeq, closeCalls>>

(* ---------------------------- the dispatcher --------------------------- *)
\* Engine.Start, called by Bot.Start after LoadScripts: go e.dispatcher().
Start ==
    /\ pc["main"] = "Start"
    /\ pc' = [pc EXCEPT !["main"] = "running", !["disp"] = "idle"]
    /\ UNCHANGED <<now, engineVars, registryVars, timerVars, stk, arg, luaS, cur,
                   pending, todo, handlerVars, dispatchedSeq, closeCalls>>

\* A receive that hands out the newest event of the buffer.
NewestEvent(queue) == queue[Len(queue)]

\* The event the dispatcher's range loop receives next.
NextEvent(queue) == Head(queue)
RestOfQueue(queue) == Tail(queue)

\* A dispatch that takes only the first hook of a BotEvent's type.
OnlyFirstHook(event) ==
    IF event.kind = "bot"
    THEN IF event.EventType \in DOMAIN hooks /\ hooks[event.EventType] # <<>>
         THEN <<Head(hooks[event.EventType])>> ELSE <<>>
    ELSE IF event.kind \in {"timer", "command"} THEN <<event.Callback>> ELSE <<>>

\* The hooks a dispatch will call: e.hooks[be.EventType] as evaluated once
\* by the range statement of BotEvent.Dispatch, or the single Callback of
\* a TimerEvent or CommandEvent.
HooksOf(event) ==
    IF event.kind = "bot"
    THEN IF event.EventType \in DOMAIN hooks THEN hooks[event.EventType] ELSE <<>>
    ELSE IF event.kind \in {"timer", "command"} THEN <<event.Callback>> ELSE <<>>

\* dispatcher: `for event := range e.eventQueue` receives an event and
\* event.Dispatch(e) begins.  ScriptEvent.Dispatch switches on the action:
\* "unload" calls unloadScript, "reload" calls reloadScript (unloadScript,
\* then loadScript), any other action is only logged.
DispatcherTake ==
    /\ pc["disp"] = "idle"
    /\ eventQueue # <<>>
    /\ LET event == NextEvent(eventQueue)
       IN  /\ cur' = event
           /\ eventQueue' = RestOfQueue(eventQueue)
           /\ dispatchedSeq' = event.seq
           /\ pending' = HooksOf(event)
           /\ IF event.kind = "script" /\ event.EventType \in {"unload", "reload"}
              THEN /\ pc' = [pc EXCEPT !["disp"] = "unloadScript"]
                   /\ arg' = [arg EXCEPT !["disp"] = [NoArg EXCEPT !.name = event.ScriptName]]
                   /\ stk' = [stk EXCEPT !["disp"] =
                                IF event.EventType = "reload"
                                THEN <<"loadScript", "Dispatch">>
                                ELSE <<"Dispatch">>]
              ELSE /\ pc' = [pc EXCEPT !["disp"] = "Dispatch"]
                   /\ UNCHANGED <<arg, stk>>
    /\ UNCHANGED <<now, world, isShuttingDown, queueClosed, panicked, stateClosed,
                   accepted, registryVars, timerVars, luaS, todo, handlerVars, closeCalls>>

\* Dispatch: the next hook of the event is called through callLuaFunction;
\* when none is left the dispatcher returns to its range loop.  The log
\* lines of BotEvent.Dispatch and TimerEvent.Dispatch read hook.Script.Name.
DispatchNext ==
    /\ pc["disp"] = "Dispatch"
    /\ IF pending = <<>>
       THEN /\ pc' = [pc EXCEPT !["disp"] = "idle"]
            /\ cur' = NoEvent
            /\ UNCHANGED <<pending, stk, luaS, currentScript, panicked>>
       ELSE IF Head(pending).Script = 0 /\ cur.kind \in {"bot", "timer"}
            THEN /\ panicked' = [why |-> "nil pointer dereference", by |-> "disp"]
                 /\ UNCHANGED <<pending, pc, stk, luaS, currentScript, cur>>
            ELSE /\ callLuaFunction("disp", Head(pending), "Dispatch")
                 /\ pending' = Tail(pending)
                 /\ UNCHANGED <<cur, panicked>>
    /\ UNCHANGED <<now, world, isShuttingDown, eventQueue, queueClosed, stateClosed,
                   accepted, hooks, scripts, objs, commands, cmds, timerVars,
                   arg, todo, handlerVars, dispatchedSeq, closeCalls>>

\* dispatcher: the range loop ends when the queue is closed and drained;
\* the deferred dispatcherWg.Done() runs.
DispatcherExit ==
    /\ pc["disp"] = "idle"
    /\ eventQueue = <<>>
    /\ queueClosed
    /\ pc' = [pc EXCEPT !["disp"] = "exited"]
    /\ UNCHANGED <<now, engineVars, registryVars, timerVars, stk, arg, luaS, cur,
                   pending, todo, handlerVars, dispatchedSeq, closeCalls>>

(* -------------------------------- Close ------------------------------- *)
\* Engine.Close is entered: isShuttingDown = true under shutdownMutex.
CloseBegin ==
    /\ pc["main"] \in {"running", "closed"}
    /\ closeCalls < MaxCloseCalls
    /\ closeCalls' = closeCalls + 1
    /\ isShuttingDown' = TRUE
    /\ pc' = [pc EXCEPT !["main"] = "Close_StopAll"]
    /\ UNCHANGED <<now, world, eventQueue, queueClosed, panicked, stateClosed, accepted,
                   registryVars, timerVars, stk, arg, luaS, cur, pending, todo,
                   handlerVars, dispatchedSeq>>

\* Close: e.timer.StopAll()
CloseStopAll ==
    /\ pc["main"] = "Close_StopAll"
    /\ Free("timer.mu")
    /\ StopAll
    /\ pc' = [pc EXCEPT !["main"] = "Close_enqueue"]
    /\ UNCHANGED <<now, engineVars, registryVars, texec, stk, arg, luaS, cur,
                   pending, todo, handlerVars, dispatchedSeq, closeCalls>>

\* Close: e.enqueueEvent(BotEvent{EventType: "on_shutdown"}, "shutdown")
CloseEnqueue ==
    /\ pc["main"] = "Close_enqueue"
    /\ enqueueEvent(BotEvent("on_shutdown"), "main")
    /\ pc' = [pc EXCEPT !["main"] = "Close_closeQueue"]
    /\ UNCHANGED <<now, world, isShuttingDown, queueClosed, stateClosed, registryVars,
                   timerVars, stk, arg, luaS, cur, pending, todo, handlerVars, dispatchedSeq, closeCalls>>

\* Close: close(e.eventQueue); closing a closed channel panics.
CloseQueue ==
    /\ pc["main"] = "Close_closeQueue"
    /\ IF queueClosed
       THEN /\ panicked' = [why |-> "close of closed channel", by |-> "main"]
            /\ UNCHANGED <<queueClosed, pc>>
       ELSE /\ queueClosed' = TRUE
            /\ pc' = [pc EXCEPT !["main"] = "Close_Wait"]
            /\ UNCHANGED panicked
    /\ UNCHANGED <<now, world, isShuttingDown, eventQueue, stateClosed, accepted,
                   registryVars, timerVars, stk, arg, luaS, cur, pending, todo,
                   handlerVars, dispatchedSeq, closeCalls>>

\* The WaitGroup counter is 1 from Engine.Start until the dispatcher's
\* deferred Done.
DispatcherRunning == pc["disp"] \notin {"notstarted", "exited"}

\* A Close that goes on to unload the scripts without waiting for the
\* dispatcher.
CloseWithoutWait ==
    /\ pc["main"] = "Close_Wait"
    /\ pc' = [pc EXCEPT !["main"] = "Close_unloadAll"]
    /\ UNCHANGED <<now, engineVars, registryVars, timerVars, stk, arg, luaS, cur,
                   pending, todo, handlerVars, dispatchedSeq, closeCalls>>

\* Close: e.dispatcherWg.Wait()
CloseWait ==
    /\ pc["main"] = "Close_Wait"
    /\ ~DispatcherRunning
    /\ pc' = [pc EXCEPT !["main"] = "Close_unloadAll"]
    /\ UNCHANGED <<now, engineVars, registryVars, timerVars, stk, arg, luaS, cur,
                   pending, todo, handlerVars, dispatchedSeq, closeCalls>>

\* Close: `for name := range e.scripts { e.unloadScript(name) }`, in the
\* order the map iteration yields, then on to e.state.Close().
CloseUnloadAll ==
    /\ pc["main"] = "Close_unloadAll"
    /\ IF \A n \in DOMAIN scripts : scripts[n] = 0
       THEN /\ pc' = [pc EXCEPT !["main"] = "Close_stateClose"]
            /\ UNCHANGED <<arg, stk>>
       ELSE \E n \in DOMAIN scripts :
              /\ scripts[n] # 0
              /\ pc' = [pc EXCEPT !["main"] = "unloadScript"]
              /\ arg' = [arg EXCEPT !["main"] = [NoArg EXCEPT !.name = n]]
              /\ stk' = [stk EXCEPT !["main"] = <<"Close_unloadAll">>]
    /\ UNCHANGED <<now, engineVars, registryVars, timerVars, luaS, cur, pending,
                   todo, handlerVars, dispatchedSeq, closeCalls>>

\* Close: e.state.Close(), and Close returns.
CloseState ==
    /\ pc["main"] = "Close_stateClose"
    /\ stateClosed' = TRUE
    /\ pc' = [pc EXCEPT !["main"] = "closed"]
    /\ UNCHANGED <<now, world, isShuttingDown, eventQueue, queueClosed, panicked,
                   accepted, registryVars, timerVars, stk, arg, luaS, cur,
                   pending, todo, handlerVars, dispatchedSeq, closeCalls>>

(* --------------------------- the specification ------------------------ *)
LuaStep(t) ==
    \/ HostLock(t)
    \/ LuaRegisterHook(t)
    \/ LuaRegisterCommand(t)
    \/ LuaRegisterTimer(t)
    \/ LuaUnregisterTimer(t)
    \/ callLuaFunctionReturn(t)
    \/ loadScript(t)
    \/ loadScriptFinish(t)
    \/ unloadScript(t)
    \/ UnloadRemove(t)
    \/ UnloadTimers(t)
    \/ UnloadCommandsRace(t)

HandlerStep(h) ==
    \/ \E m \in Messages : ProcessMessage(h, m)
    \/ CommandLookup(h)
    \/ CooldownCheck(h)
    \/ SetLastUsed(h)
    \/ EnqueueCommand(h)
    \/ enqueueMessageHooks(h)

TimerStep ==
    \/ \E i \in DOMAIN entries : TimerFire(i)
    \/ \E g \in texec : ExecuteTimerLookup(g)
    \/ \E g \in texec : ExecuteTimerSend(g)
    \/ \E g \in texec : ExecuteTimerFinish(g)

MainStep ==
    \/ LoadScripts
    \/ Start
    \/ CloseBegin
    \/ CloseStopAll
    \/ CloseEnqueue
    \/ CloseQueue
    \/ CloseWait
    \/ CloseUnloadAll
    \/ CloseState

DispatcherStep ==
    \/ DispatcherTake
    \/ DispatchNext
    \/ DispatcherExit

\* A panic that is not recovered ends the process: nothing runs after it.
Next ==
    /\ Alive
    /\ UNCHANGED codecVars
    /\ \/ MainStep
       \/ DispatcherStep
       \/ \E t \in LuaThreads : LuaStep(t)
       \/ \E h \in Handlers : HandlerStep(h)
       \/ TimerStep
       \/ \E n \in WatchNames, op \in FsOps : WatcherEvent(n, op)

Spec == Init /\ [][Next]_vars

\* The calls a script makes to json_encode, json_decode and the store.
CodecNext ==
    \/ LuaJsonEncode
    \/ LuaJsonDecode
    \/ LuaJsonEncodeAgain
    \/ \E key \in StoreKeys : LuaStoreSet(key)
    \/ \E key \in StoreKeys : LuaStoreGet(key)
    \/ \E key \in StoreKeys : LuaStoreDelete(key)

CodecSpec == CodecInit /\ [][CodecNext]_vars

\* The runs in which b.lua registers a repeating and a one-shot timer, with
\* the scheduling of Go: a goroutine that can run is run at some time, so
\* the dispatcher and the main thread take their steps.
TimerWorld == World({}, {TimersScript}, {})
TimerInit == Init /\ world = TimerWorld
TimerSpec ==
    /\ TimerInit
    /\ [][Next]_vars
    /\ \A t \in LuaThreads : WF_vars(Next /\ LuaStep(t))

(* ------------------------------ properties ---------------------------- *)
\* C1: at every instant at most one piece of Lua code (the top-level code
\* of a script run by loadScript, or a callback run by callLuaFunction) is
\* executing against the interpreter, over all interleavings of message
\* handlers, timer expiries, watcher events, LoadScripts and Close.
C1_OneLuaExecution == Cardinality({t \in LuaThreads : pc[t] = "lua"}) <= 1

\* Close runs an on_unload callback on its own thread after the dispatcher
\* has dispatched events.
C1_UnloadCallbackInClose ==
    /\ pc["main"] = "lua"
    /\ luaS["main"].kind = "call"
    /\ isShuttingDown
    /\ dispatchedSeq > 0

\* C2: the dispatcher takes the events in the order in which the queue
\* accepted them (each event taken is the one accepted right after the
\* event taken before it), and it takes an event only when the Dispatch of
\* the previous one is complete: no callback of it is left to call and no
\* Lua code is running on the dispatcher.
C2_FifoDispatch ==
    [][dispatchedSeq' # dispatchedSeq =>
         /\ dispatchedSeq' = dispatchedSeq + 1
         /\ pc["disp"] = "idle"
         /\ pending = <<>>
         /\ luaS["disp"] = NoLua]_vars

\* The second of two accepted events is being dispatched while a callback
\* of it runs.
C2_SecondEventDispatched ==
    /\ dispatchedSeq = 2
    /\ pc["disp"] = "lua"
    /\ cur.seq = 2

\* C3: in every engine state, also after Close has closed the queue, every
\* attempt to submit an event (enqueueEvent, or the direct send of
\* executeTimer) returns normally to its caller: no send panics.
C3_SubmitReturnsNormally == panicked.why # "send on closed channel"

\* C4: when an event is submitted while the queue holds QueueCap events,
\* the event is discarded, the queued events and their order are unchanged
\* and the submitting caller returns normally.
C4_FullQueueDrops ==
    [][(/\ Len(eventQueue) = QueueCap
        /\ \/ \E h \in Handlers : EnqueueCommand(h) \/ enqueueMessageHooks(h)
           \/ \E g \in texec : ExecuteTimerSend(g)
           \/ CloseEnqueue
           \/ \E n \in WatchNames, op \in {"Write", "Create"} :
                 shouldProcessFile(n) /\ WatcherEvent(n, op))
       => /\ eventQueue' = eventQueue
          /\ accepted' = accepted
          /\ panicked' = NoPanic]_vars

\* C5: on every Close the on_shutdown event is accepted into the queue,
\* whatever the fill level of the queue: the step of Close that submits it
\* raises the number of accepted events.
C5_ShutdownEventAccepted ==
    [][(pc["main"] = "Close_enqueue" /\ pc'["main"] # "Close_enqueue")
       => accepted' = accepted + 1]_vars

\* C6: once Close has set the shutting-down flag, the only event the queue
\* still accepts is the on_shutdown event.
C6_OnlyShutdownEventAfterFlag ==
    [][(isShuttingDown /\ accepted' = accepted + 1)
       => eventQueue'[Len(eventQueue')].EventType = "on_shutdown"]_vars

\* C7: Close is past its wait only when the dispatcher has taken every
\* accepted event and has exited, the scripts are unloaded and the
\* interpreter is closed only after that, and a Close that has been called
\* returns: as long as it has not returned, the program can take a step.
C7_CloseDrainsAndReturns ==
    /\ (\/ stateClosed
        \/ /\ isShuttingDown
           /\ pc["main"] \notin {"Close_StopAll", "Close_enqueue",
                                  "Close_closeQueue", "Close_Wait"})
       => /\ pc["disp"] = "exited"
          /\ eventQueue = <<>>
          /\ dispatchedSeq = accepted
    /\ (closeCalls > 0 /\ pc["main"] # "closed") => ENABLED Next

\* C8: a repeated call of Close is a no-op: no step of it changes the
\* queue, the registries or the interpreter, and it does not fail.
C8_RepeatedCloseIsNoOp ==
    [][(closeCalls > 1 /\ pc'["main"] # pc["main"])
       => UNCHANGED <<eventQueue, queueClosed, panicked, stateClosed, accepted,
                      hooks, scripts, commands, timers>>]_vars

\* C9: a Lua error raised by a callback during dispatch is caught inside
\* callLuaFunction: the dispatcher returns to the Dispatch that made the
\* call with the remaining hooks of the event and the queue as they were,
\* nothing panics, and the dispatcher exits only when the closed queue is
\* drained and no hook is left to call.
C9_LuaErrorCaught ==
    /\ [][(/\ LuaRaised("disp")
            /\ luaS["disp"].kind = "call"
            /\ pc'["disp"] # "lua")
           => /\ pc'["disp"] = Head(stk["disp"])
              /\ pending' = pending
              /\ cur' = cur
              /\ eventQueue' = eventQueue
              /\ panicked' = NoPanic]_vars
    /\ [](pc["disp"] = "exited"
            => queueClosed /\ eventQueue = <<>> /\ pending = <<>>)

\* The first on_channel_message hook raises an error, and the second hook
\* of the same event is running afterwards.
C9_NextHookAfterError ==
    /\ pc["disp"] = "lua"
    /\ luaS["disp"].kind = "call"
    /\ cur.EventType = "on_channel_message"
    /\ pending = <<>>
    /\ Len(hooks["on_channel_message"]) = 2
    /\ Body(hooks["on_channel_message"][1].Function) = <<RaiseError>>
    /\ Body(hooks["on_channel_message"][2].Function) = <<>>

\* C10: when unloadScript(S) completes, the hook registry holds no hook
\* owned by S, the command map no command registered by S, the timer map
\* no timer owned by S, UnregisterTimer returns false for every id a timer
\* of S ever had, and S is absent from the script map.
C10_UnloadRemovesEverything ==
    [][\A t \in LuaThreads :
         (/\ pc[t] = "unload_timers"
          /\ arg[t].targets = {}
          /\ pc'[t] # "unload_timers")
         => /\ \A h \in BotHookNames : \A i \in DOMAIN hooks'[h] :
                  hooks'[h][i].Script # arg[t].script
            /\ \A c \in CmdNames :
                  commands'[c] # 0
                    => cmds'[commands'[c]].Callback.Script # arg[t].script
            /\ \A id \in TimerIDs :
                  timers'[id] # 0
                    => entries'[timers'[id]].Script # arg[t].script
            /\ \A i \in DOMAIN entries :
                  entries[i].Script = arg[t].script
                    => timers'[entries[i].ID] = 0
            /\ scripts'[objs[arg[t].script].Name] = 0]_vars

\* C11: a reload is unloadScript followed by loadScript (the dispatcher
\* enters unloadScript with loadScript as the continuation, and loadScript
\* of a reload is entered only from unloadScript); and when that load fails
\* (the file cannot be read or compiled, or its code raises an error) the
\* script is absent from the script map and no hook, command or timer of
\* the script object that was unloaded is in a registry.
OwnsNothing(script, hks, cms, cmdObjs, tms, tmObjs) ==
    /\ \A h \in BotHookNames : \A i \in DOMAIN hks[h] : hks[h][i].Script # script
    /\ \A c \in CmdNames : cms[c] # 0 => cmdObjs[cms[c]].Callback.Script # script
    /\ \A id \in TimerIDs : tms[id] # 0 => tmObjs[tms[id]].Script # script

ReloadLoadFails ==
    /\ cur.kind = "script"
    /\ cur.EventType = "reload"
    /\ \/ pc["disp"] = "loadScript" /\ pc'["disp"] \notin {"loadScript", "lua"}
       \/ /\ pc["disp"] = "lua"
          /\ luaS["disp"].kind = "load"
          /\ LuaRaised("disp")
          /\ pc'["disp"] # "lua"

C11_ReloadUnloadsThenLoads ==
    /\ [][(cur'.kind = "script" /\ cur'.EventType = "reload" /\ cur' # cur)
            => /\ pc'["disp"] = "unloadScript"
               /\ stk'["disp"] = <<"loadScript", "Dispatch">>]_vars
    /\ [][(/\ cur'.kind = "script"
            /\ cur'.EventType = "reload"
            /\ pc'["disp"] = "loadScript"
            /\ pc["disp"] # "loadScript")
           => /\ pc["disp"] \in {"unloadScript", "unload_timers"}
              /\ scripts'[arg'["disp"].name] = 0]_vars
    /\ [][ReloadLoadFails
           => /\ scripts'[arg["disp"].name] = 0
              /\ arg["disp"].prev # 0
                   => OwnsNothing(arg["disp"].prev, hooks', commands', cmds',
                                  timers', entries')]_vars

\* The load of a reload is about to fail with a runtime error after the
\* unload removed a loaded script that had registered hooks.
C11_ReloadFailsAfterUnload ==
    /\ cur.kind = "script"
    /\ cur.EventType = "reload"
    /\ pc["disp"] = "lua"
    /\ luaS["disp"].kind = "load"
    /\ LuaRaised("disp")
    /\ arg["disp"].prev # 0
    /\ scripts[arg["disp"].name] = 0

\* C12: each command name maps to at most one Command, which carries that
\* name; a register_command for a name that is already registered leaves
\* the command map and the existing Command (callback, owner, cooldown,
\* last-used) unchanged and appends nothing to the command list of the
\* script that called it, so get_commands still lists the first registrant.
C12_FirstRegistrantWins ==
    /\ [](\A c \in CmdNames : commands[c] # 0 => cmds[commands[c]].Name = c)
    /\ [][\A t \in LuaThreads :
            (/\ AtHostCall(t, "register_command")
             /\ commands[Head(luaS[t].code).name] # 0
             /\ luaS'[t] # luaS[t])
            => /\ commands' = commands
               /\ cmds' = cmds
               /\ objs' = objs
               /\ get_commands' = get_commands]_vars

\* b.lua has asked for the command a.lua registered: the command still
\* belongs to a.lua and b.lua's command list is empty.
C12_SecondRegistrationRejected ==
    \E t \in LuaThreads :
      /\ pc[t] = "lua"
      /\ luaS[t].kind = "load"
      /\ luaS[t].code = <<>>
      /\ objs[luaS[t].script].Name = ScriptB
      /\ objs[luaS[t].script].Commands = <<>>
      /\ commands["ping"] # 0
      /\ get_commands["ping"].script = ScriptA
      /\ get_commands["ping"].cooldown = 1

\* C13: when messages invoking the same command (cooldown > 0) are
\* processed concurrently by different ProcessMessage callers, at most one
\* of them passes the cooldown check within one cooldown window: while less
\* than one cooldown has passed on the clock since the start, no two
\* callers are past the check for the same command.
C13_OnePassPerWindow ==
    \A h1, h2 \in Handlers :
      (/\ h1 # h2
       /\ hpc[h1] \in {"setLastUsed", "enqueueCommand"}
       /\ hpc[h2] \in {"setLastUsed", "enqueueCommand"}
       /\ hcmd[h1] = hcmd[h2])
      => now >= cmds[hcmd[h1]].Cooldown

\* C14: a command message passes the cooldown check exactly when the time
\* since the command's last-used timestamp is at least its cooldown (always
\* so for the first use and for cooldown 0), whoever the sender is; the
\* invocation that passes sets the timestamp, and its CommandEvent is
\* accepted into the queue, so that the callback runs once for it and
\* invocations inside the window that follows are refused.
C14_CooldownGatesCommand ==
    /\ [][\A h \in Handlers :
            (hpc[h] = "cooldown" /\ hpc'[h] # "cooldown")
            => /\ hpc'[h] = "setLastUsed"
                    <=> \/ cmds[hcmd[h]].LastUsed = ZeroTime
                        \/ cmds[hcmd[h]].Cooldown = 0
                        \/ now' - cmds[hcmd[h]].LastUsed >= cmds[hcmd[h]].Cooldown
               /\ hpc'[h] # "setLastUsed" => hpc'[h] = "idle" /\ accepted' = accepted]_vars
    /\ [][\A h \in Handlers :
            (hpc[h] = "setLastUsed" /\ hpc'[h] # "setLastUsed")
            => cmds'[hcmd[h]].LastUsed = now']_vars
    /\ [][\A h \in Handlers :
            (hpc[h] = "enqueueCommand" /\ hpc'[h] # "enqueueCommand")
            => /\ accepted' = accepted + 1
               /\ eventQueue'[Len(eventQueue')].kind = "command"
               /\ eventQueue'[Len(eventQueue')].Callback = cmds[hcmd[h]].Callback]_vars

\* C15: for a message that starts with the command prefix, ProcessMessage
\* goes on to submit the ordinary message BotEvent exactly when the first
\* token is not a registered command; for a registered command it submits
\* no message BotEvent, whether the command is dispatched or on cooldown.
\* The BotEvent submitted is accepted when the open queue has room.
C15_PrefixFallsThrough ==
    /\ [][\A h \in Handlers :
            (hpc[h] = "tryHandleCommand" /\ hpc'[h] # "tryHandleCommand")
            => /\ hpc'[h] = "enqueueMessageHooks" <=> commands[hmsg[h].cmd] = 0
               /\ hpc'[h] # "enqueueMessageHooks" => hpc'[h] = "cooldown"
               /\ accepted' = accepted]_vars
    /\ [][\A h \in Handlers :
            (hpc[h] \in {"cooldown", "setLastUsed", "enqueueCommand"}
             /\ hpc'[h] # hpc[h])
            => /\ hpc'[h] # "enqueueMessageHooks"
               /\ accepted' # accepted
                    => eventQueue'[Len(eventQueue')].kind = "command"]_vars
    /\ [][\A h \in Handlers :
            (/\ hpc[h] = "enqueueMessageHooks"
             /\ hpc'[h] # "enqueueMessageHooks"
             /\ ~queueClosed
             /\ Len(eventQueue) < QueueCap)
            => /\ accepted' = accepted + 1
               /\ eventQueue'[Len(eventQueue')] =
                    [BotEvent(IF hmsg[h].guild THEN "on_channel_message"
                                               ELSE "on_direct_message")
                       EXCEPT !.seq = accepted']]_vars

\* A message "!ping" arrived while no command ping is registered, and its
\* handler is about to submit the message BotEvent.
C15_UnknownCommandFallsThrough ==
    \E h \in Handlers :
      /\ hpc[h] = "enqueueMessageHooks"
      /\ hmsg[h].cmd = "ping"
      /\ commands["ping"] = 0
      /\ pc["disp"] = "idle"

\* C16: unloadScript(S) calls S's on_unload callback, when one was
\* registered, before it removes anything: the step that starts the
\* callback and the steps of the callback leave the hook registry, the
\* command map, the timer map and the script map as they are, and the
\* removal begins when the callback has returned.  unloadScript of a name
\* that is not in the script map returns at once: no registry changes and
\* no Lua code is started.
InOnUnload(t) ==
    /\ pc[t] = "lua"
    /\ luaS[t].kind = "call"
    /\ stk[t] # <<>>
    /\ Head(stk[t]) = "unload_remove"

C16_OnUnloadBeforeRemoval ==
    /\ [][\A t \in LuaThreads :
            (pc[t] = "unloadScript" /\ pc'[t] # "unloadScript")
            => /\ UNCHANGED <<hooks, commands, cmds, timers, entries, scripts>>
               /\ IF scripts[arg[t].name] = 0
                  THEN /\ pc'[t] = Head(stk[t])
                       /\ luaS' = luaS
                       /\ currentScript' = currentScript
                  ELSE IF objs[scripts[arg[t].name]].OnUnload # ""
                       THEN /\ pc'[t] = "lua"
                            /\ luaS'[t].kind = "call"
                            /\ luaS'[t].script = scripts[arg[t].name]
                            /\ luaS'[t].code = Body(objs[scripts[arg[t].name]].OnUnload)
                            /\ Head(stk'[t]) = "unload_remove"
                       ELSE pc'[t] = "unload_remove" /\ luaS' = luaS]_vars
    /\ [][\A t \in LuaThreads :
            (InOnUnload(t) /\ (luaS'[t] # luaS[t] \/ pc'[t] # pc[t]))
            => /\ UNCHANGED <<hooks, commands, cmds, timers, scripts>>
               /\ pc'[t] # "lua" => pc'[t] = "unload_remove"]_vars

\* The on_unload callback of a reloaded script runs on the dispatcher while
\* the script is in the script map and its on_shutdown hook is registered.
C16_CallbackSeesRegistrations ==
    /\ InOnUnload("disp")
    /\ scripts[arg["disp"].name] = luaS["disp"].script
    /\ \E i \in DOMAIN hooks["on_shutdown"] :
         hooks["on_shutdown"][i].Script = luaS["disp"].script

\* C17: a loadScript that fails to read or to compile its file returns to
\* its caller with the script map, the hook registry, the command map and
\* the timer map exactly as they were; LoadScripts then goes on with the
\* directory entries it has not visited yet, and loads the next *.lua file
\* among them.
C17_FailedLoadChangesNothing ==
    /\ [][\A t \in LuaThreads :
            (pc[t] = "loadScript" /\ pc'[t] \notin {"loadScript", "lua"})
            => /\ UNCHANGED <<scripts, objs, hooks, commands, cmds, timers,
                              entries, currentScript, todo>>
               /\ pc'[t] = Head(stk[t])
               /\ t = "main" => pc'[t] = "LoadScripts"]_vars
    /\ [][(pc["main"] = "LoadScripts" /\ todo # <<>> /\ todo' # todo)
           => /\ todo' = Tail(todo)
              /\ IF Ext(Head(todo)) = DotLua
                 THEN /\ pc'["main"] = "loadScript"
                      /\ arg'["main"].name = Head(todo)
                 ELSE pc'["main"] = "LoadScripts"]_vars

\* a.lua could not be read at startup, and LoadScripts has gone on to
\* b.lua, whose top-level code is running.
C17_NextFileLoadedAfterFailure ==
    /\ ReadFile(ScriptA) = {}
    /\ scripts[ScriptA] = 0
    /\ pc["main"] = "lua"
    /\ luaS["main"].kind = "load"
    /\ objs[luaS["main"].script].Name = ScriptB
    /\ todo = <<NotesTxt>>

\* C18: StopAll empties the timer map, and once the StopAll of Close has
\* returned no timer is armed again and no expiry handler sends a timer
\* event any more, also not the handler of a repeating timer that was
\* already running when StopAll was called.
StopAllReturned == closeCalls > 0 /\ pc["main"] # "Close_StopAll"

C18_StopAllIsFinal ==
    /\ [][(pc["main"] = "Close_StopAll" /\ pc'["main"] # "Close_StopAll")
           => \A id \in TimerIDs : timers'[id] = 0]_vars
    /\ [][StopAllReturned
           => /\ \A i \in DOMAIN entries :
                   /\ entries'[i].armed => entries[i].armed
                   /\ entries'[i].older <= entries[i].older
              /\ Len(entries') = Len(entries)
              /\ \A g \in texec : g.pc = "send" => g \in texec']_vars

\* C19: every call of RegisterTimer or RegisterRepeatingTimer returns an id
\* that differs from every id returned before, so the call never replaces
\* an entry of the timer map.
C19_TimerIdsUnique ==
    [][Len(entries') = Len(entries) + 1
       => /\ \A i \in DOMAIN entries : entries[i].ID # entries'[Len(entries')].ID
          /\ timers[entries'[Len(entries')].ID] = 0
          /\ timers'[entries'[Len(entries')].ID] = Len(entries')]_vars

\* C20: a repeating timer stays in the timer map until UnregisterTimer,
\* UnregisterScriptTimers or StopAll removes it: its id maps to its entry
\* until a step of one of the three sets the id free; the expiry handler of
\* a repeating timer leaves the map as it is and arms the entry again, so
\* that the entry, while in the map, is armed or being handled; and once
\* removed it is not among the active timers.
GetActiveTimers == {id \in TimerIDs : timers[id] # 0 /\ entries[timers[id]].Active}

RemovalStep ==
    \/ pc["main"] = "Close_StopAll" /\ pc'["main"] # "Close_StopAll"
    \/ \E t \in LuaThreads : pc[t] = "unload_timers" /\ arg'[t] # arg[t]
    \/ \E t \in LuaThreads : AtHostCall(t, "unregister_timer") /\ luaS'[t].code # luaS[t].code

C20_RepeatingTimerStays ==
    /\ [][\A id \in TimerIDs :
            (/\ timers[id] # 0
             /\ entries[timers[id]].Repeating
             /\ timers'[id] # timers[id])
            => /\ RemovalStep
               /\ timers'[id] = 0
               /\ id \notin GetActiveTimers']_vars
    /\ [][\A g \in texec :
            (g.pc = "finish" /\ g \notin texec' /\ entries[g.entry].Repeating)
            => /\ timers' = timers
               /\ entries'[g.entry].armed
               /\ entries'[g.entry].Active]_vars
    /\ [](\A id \in TimerIDs :
            (timers[id] # 0 /\ entries[timers[id]].Repeating)
            => \/ entries[timers[id]].armed
               \/ \E g \in texec : g.id = id)

\* C21: a one-shot timer is armed once and never again, so it expires at
\* most once; the event its expiry handler sends carries the callback and
\* the script of its entry; when the handler has finished, the id is not in
\* the timer map and not among the active timers; and from then on the id
\* stays out of the map, so that UnregisterTimer for it returns false.
SpentOneShot(i) ==
    /\ ~entries[i].Repeating
    /\ ~entries[i].armed
    /\ timers[entries[i].ID] = 0
    /\ \A g \in texec : g.id # entries[i].ID

C21_OneShotFiresOnce ==
    /\ [][\A i \in DOMAIN entries :
            ~entries[i].Repeating
            => /\ entries'[i].armed => entries[i].armed
               /\ entries'[i].older = 0]_vars
    /\ [][\A g \in texec :
            (g.pc = "send" /\ g \notin texec' /\ accepted' = accepted + 1)
            => eventQueue'[Len(eventQueue')] =
                 [TimerEvent(g.id, [Function |-> entries[g.entry].Callback,
                                    Script |-> entries[g.entry].Script])
                    EXCEPT !.seq = accepted']]_vars
    /\ [][\A g \in texec :
            (g.pc = "finish" /\ g \notin texec' /\ ~entries[g.entry].Repeating)
            => /\ timers'[g.id] = 0
               /\ g.id \notin GetActiveTimers']_vars
    /\ [][\A i \in DOMAIN entries :
            SpentOneShot(i) => timers'[entries[i].ID] = 0]_vars

\* C22: UnregisterTimer(id) returns true exactly when id is in the timer
\* map at the call and then removes that entry and no other; when it
\* returns false it changes nothing; after the call the id is not in the
\* map, so a second call returns false; and it returns false for the id of
\* a timer that has already fired as a one-shot or was already
\* unregistered.
Retired(i) ==
    /\ ~entries[i].Active
    /\ ~entries[i].armed
    /\ \A g \in texec : g.id # entries[i].ID

UnregisterTimerCalled(id) ==
    \/ \E t \in LuaThreads :
         /\ AtHostCall(t, "unregister_timer")
         /\ luaS'[t].code # luaS[t].code
         /\ id = Head(luaS[t].code).n
    \/ \E t \in LuaThreads :
         /\ pc[t] = "unload_timers"
         /\ id \in arg[t].targets
         /\ arg'[t].targets = arg[t].targets \ {id}

C22_UnregisterTimerResult ==
    [][\A id \in TimerIDs :
         UnregisterTimerCalled(id)
         => /\ IF UnregisterTimerResult(id)
               THEN /\ timers' = [timers EXCEPT ![id] = 0]
                    /\ ~entries'[timers[id]].Active
               ELSE timers' = timers /\ entries' = entries
            /\ ~UnregisterTimerResult(id)'
            /\ (\E i \in DOMAIN entries : entries[i].ID = id /\ Retired(i))
                 => ~UnregisterTimerResult(id)]_vars

\* The dispatcher begins the call of hook h: what callLuaFunction leaves
\* behind when it enters the interpreter.
DispatcherCalls(h) ==
    /\ pc["disp"] = "Dispatch"
    /\ pc'["disp"] = "lua"
    /\ currentScript' = h.Script
    /\ luaS'["disp"] = [kind |-> "call", script |-> h.Script,
                        code |-> Body(h.Function), held |-> luaS'["disp"].held]

\* C23: the dispatch of a BotEvent of type T calls the hooks that
\* e.hooks[T] holds when the dispatch starts, each exactly once and in the
\* order of their registration, and no other hook: the hooks still to be
\* called are e.hooks[T] when the dispatch starts, every call the
\* dispatcher makes during the dispatch is the call of the first of them
\* and leaves the rest, nothing else changes them, and the dispatch ends
\* only when none is left.
C23_BotEventFansOut ==
    [][/\ (cur = NoEvent /\ cur'.kind = "bot")
            => pending' = hooks[cur'.EventType]
       /\ (cur.kind = "bot" /\ cur' = cur)
            => \/ /\ pending' = pending
                  /\ ~(pc["disp"] = "Dispatch" /\ pc'["disp"] = "lua")
               \/ /\ pending # <<>>
                  /\ pending' = Tail(pending)
                  /\ DispatcherCalls(Head(pending))
       /\ (cur.kind = "bot" /\ cur' # cur)
            => pending = <<>> /\ cur' = NoEvent]_vars

\* The second hook of a type is being called, after the first one raised
\* an error, while both are still registered.
C23_SecondHookCalled ==
    /\ cur.kind = "bot"
    /\ cur.EventType = "on_channel_message"
    /\ Len(hooks["on_channel_message"]) = 2
    /\ pending = <<>>
    /\ pc["disp"] = "lua"
    /\ luaS["disp"].kind = "call"
    /\ luaS["disp"].code = Body(hooks["on_channel_message"][2].Function)
    /\ hooks["on_channel_message"][1].Function = "bad"

\* The Lua code of thread t is inside a host function that takes a
\* registry lock (before or after its Lock() call).
InLockingHostFunction(t) ==
    /\ pc[t] = "lua"
    /\ luaS[t].code # <<>>
    /\ LockOf(Head(luaS[t].code).op) # NoLock

\* C24: a thread that runs Lua code holds a registry lock only inside the
\* host function that took it: it holds none when it calls into the
\* interpreter (a hook, command, timer or on_unload callback, or a
\* script's top-level code) and none when a host function has returned to
\* the Lua code.  So a callback that calls register_hook,
\* register_command, call_later, register_timer or unregister_timer can
\* always take its next step: it gets the lock, or it holds it and
\* finishes the host function.
C24_NoLockAcrossCallback ==
    /\ [](\A t \in LuaThreads :
            luaS[t].held # {}
            => /\ InLockingHostFunction(t)
               /\ luaS[t].held = {LockOf(Head(luaS[t].code).op)})
    /\ [][\A t \in LuaThreads :
            (pc[t] # "lua" /\ pc'[t] = "lua")
            => \A u \in LuaThreads : luaS[u].held = {} /\ luaS'[u].held = {}]_vars
    /\ [](\A t \in LuaThreads :
            (Alive /\ InLockingHostFunction(t)) => ENABLED LuaStep(t))

\* The callback of a command, called by the dispatcher, is inside
\* unregister_timer and holds the timer lock.
C24_CallbackHoldsTimerLock ==
    /\ pc["disp"] = "lua"
    /\ cur.kind = "command"
    /\ luaS["disp"].kind = "call"
    /\ luaS["disp"].held = {"timer.mu"}
    /\ AtHostCall("disp", "unregister_timer")

\* Every text the file may hold compiles and runs to its end.
ValidFile(name) ==
    /\ ReadFile(name) # {}
    /\ \A code \in ReadFile(name) :
         Compiles(code) /\ \A i \in DOMAIN code : code[i].op # "error"

\* C25: when the dispatch of a ScriptEvent ends, the lifecycle manager has
\* acted on it: after action load or reload the named script is in the
\* script map when its file is valid, after action unload it is not; so a
\* script file created in the watched directory ends up loaded.
C25_ScriptEventActs ==
    [][(cur.kind = "script" /\ cur' = NoEvent)
         => /\ (cur.EventType \in {"load", "reload"} /\ ValidFile(cur.ScriptName))
                 => scripts'[cur.ScriptName] # 0
            /\ cur.EventType = "unload" => scripts'[cur.ScriptName] = 0]_vars

\* The queue has grown by one ScriptEvent with this action and name.
Submitted(action, name) ==
    /\ Len(eventQueue') = Len(eventQueue) + 1
    /\ SubSeq(eventQueue', 1, Len(eventQueue)) = eventQueue
    /\ eventQueue'[Len(eventQueue')].kind = "script"
    /\ eventQueue'[Len(eventQueue')].EventType = action
    /\ eventQueue'[Len(eventQueue')].ScriptName = name

\* C26: a step of the watcher for a notification (op) on file f leaves the
\* queue as it is when f is hidden or has another extension than .lua, or
\* when op is neither a write nor a creation; else the only event it adds
\* is ScriptEvent{reload, f} for a write and ScriptEvent{load, f} for a
\* creation (none when the queue does not take it).  The step never
\* changes the scripts, hooks, commands or timers and starts no Lua code.
C26_WatcherOnlySubmits ==
    [][\A f \in WatchNames, op \in FsOps :
         WatcherEvent(f, op)
         => /\ UNCHANGED <<scripts, objs, hooks, commands, cmds, currentScript,
                           timers, entries, luaS, pc>>
            /\ (IsHidden(f) \/ Ext(f) # DotLua \/ op = "Remove")
                 => eventQueue' = eventQueue
            /\ (~IsHidden(f) /\ Ext(f) = DotLua /\ op = "Write")
                 => eventQueue' = eventQueue \/ Submitted("reload", f)
            /\ (~IsHidden(f) /\ Ext(f) = DotLua /\ op = "Create")
                 => eventQueue' = eventQueue \/ Submitted("load", f)]_vars

\* The queue holds a reload of a.lua followed by a load of b.lua, both
\* submitted by the watcher.
C26_ReloadAndLoadQueued ==
    /\ Len(eventQueue) = 2
    /\ eventQueue[1].kind = "script" /\ eventQueue[1].EventType = "reload"
    /\ eventQueue[1].ScriptName = ScriptA
    /\ eventQueue[2].kind = "script" /\ eventQueue[2].EventType = "load"
    /\ eventQueue[2].ScriptName = ScriptB

\* C27: each iteration of LoadScripts passes to the next directory entry
\* and calls loadScript for the entry exactly when its name has the
\* extension .lua and does not start with a dot; when loadScript returns,
\* with or without an error, the loop goes on with the entries that are
\* left; so no hidden file is ever in the script map.
C27_LoadScriptsFilter ==
    /\ [][(/\ pc["main"] = "LoadScripts" /\ todo # <<>>
           /\ (todo' # todo \/ pc'["main"] # "LoadScripts"))
            => /\ todo' = Tail(todo)
               /\ pc'["main"] = "loadScript"
                    <=> (Ext(Head(todo)) = DotLua /\ ~IsHidden(Head(todo)))
               /\ pc'["main"] = "loadScript" => arg'["main"].name = Head(todo)
               /\ pc'["main"] # "loadScript" => pc'["main"] = "LoadScripts"]_vars
    /\ [][(/\ pc["main"] \in {"loadScript", "lua"}
           /\ stk["main"] = <<"LoadScripts">>
           /\ pc'["main"] \notin {"loadScript", "lua"})
            => pc'["main"] = "LoadScripts" /\ todo' = todo]_vars
    /\ [](\A n \in AllNames : scripts[n] # 0 => ~IsHidden(n) /\ Ext(n) = DotLua)

\* C28: for every table t of strings, numbers, booleans and nested tables,
\* json_decode(json_encode(t)) is a table, and encoding that table gives
\* the same text as json_encode(t).
C28_JsonRoundTrip ==
    /\ [](reencoded # NoText => reencoded = encoded)
    /\ [][(encoded # NoText /\ decoded' # decoded) => decoded'.t = "LTable"]_vars

\* The three calls were made on a table that has the number key 1, the
\* string key "1" and a nested table, and that json_decode did not give
\* back.
C28_NormalisedTableReencoded ==
    /\ reencoded # NoText
    /\ value.t = "LTable"
    /\ DOMAIN value.v = LuaKeys
    /\ value.v[LString("a")].t = "LTable"
    /\ DOMAIN value.v[LString("a")].v = {LNumber(1)}
    /\ decoded # value

\* C29: a store_get that reads the row a store_set of table t wrote
\* returns a table equal to t, key for key and value for value, with the
\* same key types and value types; a store_get that finds no row returns
\* nil.
C29_StoreRoundTrip ==
    /\ (got # NoGet /\ got.row = NoRow) => got.val = LNil
    /\ (got # NoGet /\ got.row # NoRow /\ value.t = "LTable") => got.val = value

\* The script object is in the script map.
Loaded(script) == \E n \in AllNames : scripts[n] = script

\* No thread is inside loadScript, unloadScript or reloadScript.
NoLifecycleOperation ==
    \A t \in LuaThreads :
      /\ pc[t] \notin {"loadScript", "unloadScript", "unload_remove", "unload_timers"}
      /\ luaS[t].kind # "load"
      /\ \A i \in DOMAIN stk[t] : stk[t][i] \notin {"loadScript", "unload_remove"}

\* C30: whenever no load, reload or unload is in progress, every hook of
\* the hook registry, every command of the command map and every timer of
\* the timer map is owned by a script object that is in the script map.
C30_NoOrphanRegistration ==
    NoLifecycleOperation
    => /\ \A h \in BotHookNames : \A i \in DOMAIN hooks[h] : Loaded(hooks[h][i].Script)
       /\ \A c \in CmdNames : commands[c] # 0 => Loaded(cmds[commands[c]].Callback.Script)
       /\ \A id \in TimerIDs : timers[id] # 0 => Loaded(entries[timers[id]].Script)

\* unloadScript has completed for the script object: the object was
\* loaded (every text of its file loads without an error, and no load of
\* the object is in progress) and it is not in the script map any more.
WasUnloaded(script) ==
    /\ script \in DOMAIN objs
    /\ ~Loaded(script)
    /\ ValidFile(objs[script].Name)
    /\ \A t \in LuaThreads : ~(luaS[t].kind = "load" /\ luaS[t].script = script)

\* C31: the dispatcher never begins a callback whose owner is a script
\* object that unloadScript has unloaded, whatever event carries the
\* callback.
C31_NoCallbackAfterUnload ==
    [][\A script \in DOMAIN objs :
         (/\ WasUnloaded(script)
          /\ pc["disp"] # "lua"
          /\ pc'["disp"] = "lua"
          /\ luaS'["disp"].kind = "call")
         => luaS'["disp"].script # script]_vars

\* C32: a step that changes the command map is taken by a thread that
\* holds cmdMutex, a step that changes the hook registry by a thread that
\* holds hookMutex, a step that changes the timer map by a thread that
\* holds the timer mutex or takes it for the step; and the deletion of a
\* script's commands never meets the lookup of tryHandleCommand
\* unsynchronised.
C32_RegistriesUnderMutex ==
    [][/\ commands' # commands
            => \E t \in LuaThreads : "cmdMutex" \in luaS[t].held
       /\ hooks' # hooks
            => \E t \in LuaThreads : "hookMutex" \in luaS[t].held
       /\ timers' # timers
            => \/ \E t \in LuaThreads : "timer.mu" \in luaS[t].held
               \/ Free("timer.mu")
       /\ panicked'.why # "concurrent map read and map write"]_vars

\* The part of C32 about the timer map alone.
C32_TimerMapUnderMutex ==
    [][timers' # timers
         => \/ \E t \in LuaThreads : "timer.mu" \in luaS[t].held
            \/ Free("timer.mu")]_vars

\* No run ends with the fatal error of an unsynchronised map access.
C32_NoMapRace == panicked.why # "concurrent map read and map write"

\* C33: when an executeTimer goroutine that found its entry takes a step
\* after UnregisterTimer removed the id (the id is not in the timer map
\* and no StopAll has run; every id was generated once), the step sends
\* no event to the queue and does not arm the entry's timer again.
C33_UnregisteredTimerIsSilent ==
    [][\A g \in texec :
         (/\ g.entry # 0
          /\ timers[g.id] = 0
          /\ ~isShuttingDown
          /\ \A i, j \in DOMAIN entries : entries[i].ID = entries[j].ID => i = j
          /\ g \notin texec')
         => /\ eventQueue' = eventQueue
            /\ entries'[g.entry].armed => entries[g.entry].armed]_vars

\* C34: Lua code (top-level code of a script, callbacks) is executed by
\* the dispatcher alone: the thread that calls LoadScripts and Close never
\* is inside the interpreter.
C34_LuaOnlyOnDispatcher ==
    /\ pc["main"] # "lua"
    /\ luaS["main"].kind = "none"

\* The part of C34 about Close: the thread that calls Close runs no
\* on_unload callback.
C34_CloseRunsNoLua ==
    ~(closeCalls > 0 /\ pc["main"] = "lua" /\ luaS["main"].kind = "call")

\* The callbacks a piece of top-level code registers for the hook name h,
\* in the order of its register_hook calls.
RegisteredHooks(code, h) ==
    LET calls == SelectSeq(code, LAMBDA s : s.op = "register_hook" /\ s.name = h)
    IN  [i \in 1..Len(calls) |-> calls[i].fn]

\* The callbacks in the list of h whose owner is a script object of the
\* file `name`.
HooksOfFile(hks, name, h) ==
    LET own == SelectSeq(hks[h], LAMBDA x : objs[x.Script].Name = name)
    IN  [i \in 1..Len(own) |-> own[i].Function]

\* C35: when the load of a reload succeeds, the hooks of the script's file
\* are the ones the loaded text registers, each once and owned by the new
\* object, and every command of the file is owned by the new object.
C35_ReloadRegistersExactly ==
    [][(/\ pc["disp"] = "lua"
        /\ luaS["disp"].kind = "load"
        /\ cur.kind = "script"
        /\ cur.EventType = "reload"
        /\ scripts' # scripts)
       => LET name == cur.ScriptName
              script == luaS["disp"].script
          IN  /\ scripts'[name] = script
              /\ \E code \in ReadFile(name) :
                   /\ Compiles(code)
                   /\ \A i \in DOMAIN code : code[i].op # "error"
                   /\ \A h \in BotHookNames :
                        HooksOfFile(hooks', name, h) = RegisteredHooks(code, h)
              /\ \A h \in BotHookNames : \A i \in DOMAIN hooks'[h] :
                   objs[hooks'[h][i].Script].Name = name
                     => hooks'[h][i].Script = script
              /\ \A c \in CmdNames :
                   (/\ commands'[c] # 0
                    /\ objs[cmds'[commands'[c]].Callback.Script].Name = name)
                   => cmds'[commands'[c]].Callback.Script = script]_vars

\* The timers in the map whose script has the name `name`.
TimersOfScript(name) ==
    {id \in TimerIDs : timers[id] # 0 /\ objs[entries[timers[id]].Script].Name = name}

\* A thread is in the part of unloadScript that removes the script's hooks
\* and timers (removeHooks and UnregisterScriptTimers).
Removing == \E t \in LuaThreads : pc[t] \in {"unload_remove", "unload_timers"}

\* C36: UnregisterScriptTimers can always take its next step, each of its
\* steps removes one of the collected ids, and when the ids are used up no
\* timer of the script is in the timer map; a thread that holds the timer
\* mutex can always go on to release it, and an expiry handler or StopAll
\* that finds the mutex free can take its step; a thread that has entered
\* the removal of a script's registrations leaves it, unless the process
\* ends before.
C36_UnregisterScriptTimersEnds ==
    /\ [](\A t \in LuaThreads :
            (Alive /\ pc[t] \in {"unload_remove", "unload_timers"})
            => ENABLED (UnloadRemove(t) \/ UnloadTimers(t)))
    /\ [][\A t \in LuaThreads :
            (pc[t] = "unload_timers" /\ arg'[t] # arg[t])
            => \/ pc'[t] # "unload_timers"
               \/ /\ arg'[t].targets \subseteq arg[t].targets
                  /\ arg'[t].targets # arg[t].targets]_vars
    /\ [](\A t \in LuaThreads :
            (pc[t] = "unload_timers" /\ arg[t].targets = {})
            => TimersOfScript(arg[t].name) = {})
    /\ [](\A t \in LuaThreads :
            (Alive /\ "timer.mu" \in luaS[t].held) => ENABLED LuaStep(t))
    /\ [](\A g \in texec :
            (Alive /\ Free("timer.mu"))
            => ENABLED (\/ ExecuteTimerLookup(g)
                        \/ ExecuteTimerSend(g)
                        \/ ExecuteTimerFinish(g)))
    /\ []((Alive /\ pc["main"] = "Close_StopAll" /\ Free("timer.mu"))
            => ENABLED CloseStopAll)
    /\ Removing ~> (~Removing \/ ~Alive)

\* UnregisterScriptTimers has removed the timers of a script while the
\* expiry handler of one of them was running.
C36_RemovedWhileExpiring ==
    \E t \in LuaThreads :
      /\ pc[t] = "unload_timers"
      /\ arg[t].targets = {}
      /\ \E g \in texec :
           /\ g.entry # 0
           /\ objs[entries[g.entry].Script].Name = arg[t].name
           /\ timers[g.id] = 0

\* C37: the step of tryHandleCommand that follows the cooldown check and
\* the setting of LastUsed places one CommandEvent of that command at the
\* end of the queue.
C37_CooldownStartsWithQueuedEvent ==
    [][\A h \in Handlers :
         (hpc[h] = "enqueueCommand" /\ hpc'[h] # "enqueueCommand")
         => /\ Len(eventQueue') = Len(eventQueue) + 1
            /\ SubSeq(eventQueue', 1, Len(eventQueue)) = eventQueue
            /\ eventQueue'[Len(eventQueue')].kind = "command"
            /\ eventQueue'[Len(eventQueue')].EventType = cmds[hcmd[h]].Name]_vars

\* The main thread is inside Close, past the setting of the flag.
InClose ==
    /\ closeCalls > 0
    /\ pc["main"] \notin {"running", "closed"}

\* The on_shutdown event waits in the queue or its hooks are being called.
ShutdownEventPending ==
    \/ \E i \in DOMAIN eventQueue : eventQueue[i].EventType = "on_shutdown"
    \/ cur.EventType = "on_shutdown"

\* C38: Close sets the flag, then stops all timers, then queues the
\* on_shutdown event, then closes the queue and waits until the dispatcher
\* has drained it, and only then unloads the scripts: while the on_shutdown
\* event is pending Close runs no on_unload callback; Close calls the
\* on_unload callback of each loaded script, once, and closes the
\* interpreter when no script is left.
C38_CloseOrder ==
    /\ [](InClose => isShuttingDown)
    /\ [][(pc["main"] = "Close_StopAll" /\ pc'["main"] # pc["main"])
          => /\ pc'["main"] = "Close_enqueue"
             /\ \A id \in TimerIDs : timers'[id] = 0]_vars
    /\ [][(pc["main"] = "Close_enqueue" /\ pc'["main"] # pc["main"])
          => /\ pc'["main"] = "Close_closeQueue"
             /\ Len(eventQueue') = Len(eventQueue) + 1
             /\ eventQueue'[Len(eventQueue')].EventType = "on_shutdown"]_vars
    /\ [][(pc["main"] = "Close_closeQueue" /\ pc'["main"] # pc["main"])
          => pc'["main"] = "Close_Wait" /\ queueClosed']_vars
    /\ [][(pc["main"] = "Close_Wait" /\ pc'["main"] # pc["main"])
          => /\ pc'["main"] = "Close_unloadAll"
             /\ pc["disp"] = "exited"
             /\ eventQueue = <<>>
             /\ dispatchedSeq = accepted]_vars
    /\ []((InClose /\ ShutdownEventPending)
          => pc["main"] \in {"Close_closeQueue", "Close_Wait"})
    /\ [][(InClose /\ pc["main"] = "unloadScript" /\ pc'["main"] # pc["main"])
          => LET script == scripts[arg["main"].name]
             IN  (script # 0 /\ objs[script].OnUnload # "")
                 => /\ pc'["main"] = "lua"
                    /\ luaS'["main"].kind = "call"
                    /\ luaS'["main"].script = script
                    /\ ~stateClosed]_vars
    /\ [][(InClose /\ pc["main"] # "lua" /\ pc'["main"] = "lua")
          => /\ pc["main"] = "unloadScript"
             /\ Loaded(luaS'["main"].script)]_vars
    /\ [][(InClose /\ pc["main"] = "unload_timers" /\ pc'["main"] # pc["main"])
          => \A n \in DOMAIN scripts : scripts'[n] # arg["main"].script]_vars
    /\ [][(~stateClosed /\ stateClosed')
          => \A n \in DOMAIN scripts : scripts[n] = 0]_vars

\* The names of the command map whose Command is owned by the script.
CommandsOwnedBy(script, cms, cmdObjs) ==
    {c \in CmdNames : cms[c] # 0 /\ cmdObjs[cms[c]].Callback.Script = script}

\* C39: the command list of every loaded script holds the names of the
\* command map that the script owns, and no other name; the step of
\* unloadScript that deletes the commands removes the commands of the
\* script, all of them, and no command of another script.
C39_CommandListMatchesMap ==
    /\ [](\A n \in DOMAIN scripts :
            scripts[n] # 0
            => Range(objs[scripts[n]].Commands)
                 = CommandsOwnedBy(scripts[n], commands, cmds))
    /\ [][\A t \in LuaThreads :
            (pc[t] = "unload_timers" /\ pc'[t] # "unload_timers")
            => /\ CommandsOwnedBy(arg[t].script, commands', cmds') = {}
               /\ \A c \in CmdNames :
                    commands'[c] # commands[c]
                    => c \in CommandsOwnedBy(arg[t].script, commands, cmds)]_vars

\* unloadScript has deleted the command of a script while a second loaded
\* script had asked for the same name.
C39_CommandOfOneScriptRemoved ==
    /\ pc["disp"] = "loadScript"
    /\ arg["disp"].prev # 0
    /\ objs[arg["disp"].prev].Commands # <<>>
    /\ \A c \in CmdNames : commands[c] = 0
    /\ \E n \in DOMAIN scripts :
         /\ scripts[n] # 0
         /\ \E code \in ReadFile(n) : \E i \in DOMAIN code :
              code[i].op = "register_command"

\* The positions of the list of h whose hook is not owned by the script.
KeptPositions(script, h) ==
    {i \in DOMAIN hooks[h] : hooks[h][i].Script # script}

\* The j-th of these positions, counted from the front of the list.
KeptPosition(script, h, j) ==
    CHOOSE i \in KeptPositions(script, h) :
      Cardinality({k \in KeptPositions(script, h) : k <= i}) = j

\* C40: the step of unloadScript that calls removeHooks leaves in the list
\* of every event type the hooks of the other scripts, all of them and in
\* the order they had, and no hook of the script.
C40_RemoveHooksExact ==
    [][\A t \in LuaThreads :
         (pc[t] = "unload_remove" /\ pc'[t] # "unload_remove")
         => \A h \in BotHookNames :
              /\ Len(hooks'[h]) = Cardinality(KeptPositions(arg[t].script, h))
              /\ \A j \in DOMAIN hooks'[h] :
                   hooks'[h][j] = hooks[h][KeptPosition(arg[t].script, h, j)]]_vars

\* removeHooks has taken the hooks of a script out of a list in which two
\* hooks of other script objects stay.
C40_TwoHooksStay ==
    \E t \in LuaThreads :
      /\ pc[t] = "unload_timers"
      /\ \E code \in ReadFile(arg[t].name) :
           RegisteredHooks(code, "on_shutdown") # <<>> /\ ValidFile(arg[t].name) = FALSE
      /\ Len(hooks["on_shutdown"]) >= 2
      /\ hooks["on_shutdown"][1].Script # hooks["on_shutdown"][2].Script
      /\ \A i \in DOMAIN hooks["on_shutdown"] :
           hooks["on_shutdown"][i].Script # arg[t].script
      /\ objs[arg[t].script].OnUnload # ""

====
